---- MODULE Spec2Model ----
(***************************************************************************)
(* Model of the pinchord chord-spelling worker (chord-worker.ts) and of    *)
(* the search it runs.  A JavaScript string is a sequence of one-character *)
(* strings, so that startsWith, slice, length and includes are computed.   *)
(* An optional value (T | undefined, T | null) is a sequence of length at  *)
(* most one: <<>> is undefined/null, <<v>> is the value v.                  *)
(***************************************************************************)
EXTENDS Integers, Sequences, FiniteSets, TLC

VARIABLES
    \* ---- the worker (module state of chord-worker.ts) ----
    currentJobId,   \* let currentJobId: number | null
    jobRunning,     \* let jobRunning
    pendingJob,     \* let pendingJob: {id, version, target, maxEntries} | null
    cache,          \* const cache: Record<string, ChordData>
    loading,        \* startJob calls suspended at `await fetch(...)` or `await res.json()`
    ticking,        \* runJob loops suspended at `await new Promise(setTimeout 0)`
    posted,         \* the messages given to self.postMessage, in order
    \* ---- history of the run (observation only, never read by the worker) ----
    log,            \* what the worker did, in order (see the events below)
    \* ---- one search driven on its own (pure-function claims); sOut and
    \* sCalls are observation only ----
    sTarget,        \* the target of the search
    sData,          \* the ChordData the components are built from
    sGen,           \* the generator object of findSpellingsGenerator
    sOut,           \* the values gen.next() has yielded, in order
    sState,         \* "suspended" | "done" | "threw"
    sCalls,         \* the targets getPrefixChords was called with, in order
    \* ---- the page (module state of main.ts and the elements it reads and
    \* writes) ----
    requestId,            \* let requestId
    totalShownForRequest, \* let totalShownForRequest
    versionEl,            \* versionEl.value
    inputEl,              \* inputEl.value
    maxEntriesEl,         \* maxEntriesEl.value
    outputEl,             \* what outputEl shows
    outputCountEl,        \* what outputCountEl shows
    csvTableData,         \* let csvTableData
    csvTbody,             \* the rows of csvTbody
    csvWordQueue,         \* let csvWordQueue
    csvCurrentWord,       \* let csvCurrentWord
    csvDisabled,          \* the disabled attribute of csvComputeBtn
    toWorker,             \* messages of worker.postMessage the worker has not taken yet
    hostSeen,             \* how many of the worker's messages worker.onmessage has taken
    \* ---- history of the page (observation only) ----
    hostDropped,          \* how many messages worker.onmessage left at line 277
    csvBatches,           \* how many clicks on csvComputeBtn began a batch
    csvWords,             \* the words of the last click on csvComputeBtn
    csvAsked              \* the words a CSV request was posted for since that click

workerVars == <<currentJobId, jobRunning, pendingJob, cache, loading, ticking, posted>>
historyVars == <<log>>
searchVars == <<sTarget, sData, sGen, sOut, sState, sCalls>>
hostVars == <<requestId, totalShownForRequest, versionEl, inputEl, maxEntriesEl,
              outputEl, outputCountEl, csvTableData, csvTbody, csvWordQueue,
              csvCurrentWord, csvDisabled, toWorker, hostSeen, hostDropped,
              csvBatches, csvWords, csvAsked>>
vars == <<workerVars, historyVars, searchVars, hostVars>>

-----------------------------------------------------------------------------
(* Strings *)

startsWith(s, p) == Len(p) <= Len(s) /\ SubSeq(s, 1, Len(p)) = p

slice(s, n) == SubSeq(s, n + 1, Len(s))

includes(s, c) == \E i \in 1..Len(s) : s[i] = c

\* The property names every object literal inherits from Object.prototype:
\* `key in {}` is true for each of them although {} has no own property.
ObjectPrototypeKeys ==
    { <<"c","o","n","s","t","r","u","c","t","o","r">>,
      <<"t","o","S","t","r","i","n","g">>,
      <<"v","a","l","u","e","O","f">>,
      <<"t","o","L","o","c","a","l","e","S","t","r","i","n","g">>,
      <<"h","a","s","O","w","n","P","r","o","p","e","r","t","y">>,
      <<"i","s","P","r","o","t","o","t","y","p","e","O","f">>,
      <<"p","r","o","p","e","r","t","y","I","s","E","n","u","m","e","r","a","b","l","e">>,
      <<"_","_","p","r","o","t","o","_","_">>,
      <<"_","_","d","e","f","i","n","e","G","e","t","t","e","r","_","_">>,
      <<"_","_","d","e","f","i","n","e","S","e","t","t","e","r","_","_">>,
      <<"_","_","l","o","o","k","u","p","G","e","t","t","e","r","_","_">>,
      <<"_","_","l","o","o","k","u","p","S","e","t","t","e","r","_","_">> }

-----------------------------------------------------------------------------
(* Component tables.  A Record<string,string> is the sequence of its       *)
(* [key, value] entries in the object's own property order.                *)

isLiteral(s) ==
    IF s = <<>> THEN TRUE
    ELSE ~includes(s, "{") /\ ~includes(s, "}") /\ ~includes(s, "|")

\* literalPart giving every fragment back as it is
literalPartKept(s) == s

literalPart(s) == IF isLiteral(s) THEN s ELSE <<>>

\* Object.entries(m ?? {})
ObjectEntries(m) == IF m = <<>> THEN <<>> ELSE m[1]

hasEmptyKey(items) == \E i \in 1..Len(items) : items[i][1] = <<>>

\* withEmpty without the unshift of line 25
withEmptyNever(m) == ObjectEntries(m)

withEmpty(m) ==
    LET items == ObjectEntries(m)
    IN  IF ~hasEmptyKey(items) THEN << <<<<>>, <<>>>> >> \o items ELSE items

buildComponents(data) ==
    LET suffixMap == IF data.suffix # <<>> /\ Len(data.suffix[1]) > 0
                     THEN data.suffix ELSE data.suffixes
        entries == ObjectEntries(suffixMap)
        suffixes == IF ~hasEmptyKey(entries) THEN << <<<<>>, <<>>>> >> \o entries
                    ELSE entries
    IN  << withEmpty(data.initials), withEmpty(data.vowels),
           withEmpty(data.finals), suffixes >>

\* allChordOutputs with the vowel stroke written in the place of the initial
\* stroke at line 52
allChordOutputsVowelTwice(components) ==
    LET initials == components[1]
        vowels   == components[2]
        finals   == components[3]
        suffixes == components[4]
        nV == Len(vowels)
        nF == Len(finals)
        nS == Len(suffixes)
        n  == Len(initials) * nV * nF * nS
    IN  [k \in 1..n |->
            LET i == initials[((k - 1) \div (nV * nF * nS)) + 1]
                v == vowels[(((k - 1) \div (nF * nS)) % nV) + 1]
                f == finals[(((k - 1) \div nS) % nF) + 1]
                s == suffixes[((k - 1) % nS) + 1]
                out == literalPart(i[2]) \o literalPart(v[2])
                       \o literalPart(f[2]) \o literalPart(s[2])
            IN  << out, << v[1], v[1], f[1], s[1] >> >>]

\* The chords in the order the four nested loops yield them: each is
\* <<out, <<iStroke, vStroke, fStroke, sStroke>>>>.
allChordOutputs(components) ==
    LET initials == components[1]
        vowels   == components[2]
        finals   == components[3]
        suffixes == components[4]
        nV == Len(vowels)
        nF == Len(finals)
        nS == Len(suffixes)
        n  == Len(initials) * nV * nF * nS
    IN  [k \in 1..n |->
            LET i == initials[((k - 1) \div (nV * nF * nS)) + 1]
                v == vowels[(((k - 1) \div (nF * nS)) % nV) + 1]
                f == finals[(((k - 1) \div nS) % nF) + 1]
                s == suffixes[((k - 1) % nS) + 1]
                out == literalPart(i[2]) \o literalPart(v[2])
                       \o literalPart(f[2]) \o literalPart(s[2])
            IN  << out, << i[1], v[1], f[1], s[1] >> >>]

RECURSIVE maxOutLen(_)
maxOutLen(list) ==
    IF list = <<>> THEN 0
    ELSE LET m == maxOutLen(Tail(list))
         IN  IF Len(Head(list)[1]) > m THEN Len(Head(list)[1]) ELSE m

\* list.sort(([a], [b]) => b.length - a.length): Array.prototype.sort is
\* stable, so the result is the entries of each output length, longest
\* length first, each group in list order.
RECURSIVE sortFrom(_, _)
sortFrom(list, len) ==
    IF len < 0 THEN <<>>
    ELSE SelectSeq(list, LAMBDA c : Len(c[1]) = len) \o sortFrom(list, len - 1)

\* the list left as the enumeration gave it (the sort of line 76 left out)
sortByLengthNot(list) == list

sortByLengthDesc(list) == sortFrom(list, maxOutLen(list))

\* getPrefixChords testing the length of the output in place of startsWith
getPrefixChordsByLength(target, components) ==
    LET matches(c) == c[1] # <<>> /\ Len(c[1]) <= Len(target)
    IN  sortByLengthDesc(SelectSeq(allChordOutputs(components), matches))

\* getPrefixChords testing endsWith in the place of startsWith at line 74
getPrefixChordsEndsWith(target, components) ==
    LET matches(c) == /\ c[1] # <<>>
                      /\ Len(c[1]) <= Len(target)
                      /\ SubSeq(target, Len(target) - Len(c[1]) + 1, Len(target)) = c[1]
    IN  sortByLengthDesc(SelectSeq(allChordOutputs(components), matches))

getPrefixChords(target, components) ==
    LET matches(c) == c[1] # <<>> /\ startsWith(target, c[1])
    IN  sortByLengthDesc(SelectSeq(allChordOutputs(components), matches))

-----------------------------------------------------------------------------
(* findSpellingsGenerator.  A generator object is the stack of its suspended *)
(* activations (outermost first; each inner one is the generator the for-of *)
(* of the activation above it is iterating), the memo they share and the    *)
(* components.  An activation records where its body stands:                 *)
(*   "start"        nothing of the body has run                              *)
(*   "yieldedEmpty" suspended at `yield []` (line 87)                        *)
(*   "replay"       in the loop over memo[target] (line 91), ri entries done *)
(*   "loop"         in the loop over chordList (line 96), at chord ci        *)

EmptyMemo == [k \in {} |-> <<>>]

\* the assignments to the memo (lines 86 and 104) left out
memoSetNever(memo, key, value) == memo

\* memo[key] = value
memoSet(memo, key, value) ==
    [k \in (DOMAIN memo) \cup {key} |-> IF k = key THEN value ELSE memo[k]]

\* key in memo: own properties and those inherited from Object.prototype
inMemo(key, memo) == key \in DOMAIN memo \/ key \in ObjectPrototypeKeys

\* a call of findSpellingsGenerator without the base case of lines 85-89:
\* no chord output is a prefix of "", so every search ends without a yield
newActivationNoBaseCase(target) ==
    [target |-> target, pc |-> "loop", chordList |-> <<>>, ci |-> 0,
     ways |-> <<>>, ri |-> 0]

newActivation(target) ==
    [target |-> target, pc |-> "start", chordList |-> <<>>, ci |-> 0,
     ways |-> <<>>, ri |-> 0]

newGenerator(target, components, memo) ==
    [stack |-> <<newActivation(target)>>, memo |-> memo, components |-> components]

\* The way activation i yields when the innermost activation yields v:
\* [[out, strokes], ...restWay] at every level above it (line 99).
RECURSIVE wayAt(_, _, _)
wayAt(stack, i, v) ==
    IF i = Len(stack) THEN v
    ELSE <<stack[i].chordList[stack[i].ci]>> \o wayAt(stack, i + 1, v)

\* yieldUp with the assignment of line 104 made inside the loop, after the
\* push of line 100, by the outermost activation
yieldUpStoring(stack, memo, v) ==
    [kind  |-> "yield",
     value |-> wayAt(stack, 1, v),
     stack |-> [i \in 1..Len(stack) |->
                   IF i < Len(stack)
                   THEN [stack[i] EXCEPT !.ways = Append(@, wayAt(stack, i, v))]
                   ELSE stack[i]],
     memo  |-> IF Len(stack) > 1
               THEN memoSet(memo, stack[1].target, Append(stack[1].ways, wayAt(stack, 1, v)))
               ELSE memo]

\* The innermost activation yields v: every activation above it pushes its
\* way (line 100) and yields it (line 101); the outermost one's is the value.
yieldUp(stack, memo, v) ==
    [kind  |-> "yield",
     value |-> wayAt(stack, 1, v),
     stack |-> [i \in 1..Len(stack) |->
                   IF i < Len(stack)
                   THEN [stack[i] EXCEPT !.ways = Append(@, wayAt(stack, i, v))]
                   ELSE stack[i]],
     memo  |-> memo]

\* the generator goes on running from the given stack and memo
running(stack, memo) ==
    [kind |-> "running", value |-> <<>>, stack |-> stack, memo |-> memo]

\* One stretch of the body of the innermost activation: up to a yield, to
\* the return or the exception of the generator, or to the point where
\* another activation takes over (a call, a return to the caller).
advance(stack, memo, components) ==
    IF stack = <<>>
    THEN [kind |-> "return", value |-> <<>>, stack |-> <<>>, memo |-> memo]
    ELSE
    LET n == Len(stack)
        f == stack[n]
        above == SubSeq(stack, 1, n - 1)
    IN  CASE f.pc = "start" ->
               IF f.target = <<>>
               THEN yieldUp(above \o <<[f EXCEPT !.pc = "yieldedEmpty"]>>,
                            memoSet(memo, <<>>, << <<>> >>), <<>>)
               ELSE IF inMemo(f.target, memo)
               THEN IF f.target \in DOMAIN memo
                    THEN running(above \o <<[f EXCEPT !.pc = "replay"]>>, memo)
                    \* memo[target] is an inherited function or object:
                    \* for-of throws TypeError (not iterable)
                    ELSE [kind |-> "throw", value |-> <<>>, stack |-> <<>>, memo |-> memo]
               ELSE running(above \o <<[f EXCEPT !.pc = "loop",
                                          !.chordList = getPrefixChords(f.target, components)]>>,
                            memo)
          [] f.pc = "yieldedEmpty" ->
               running(above, memo)
          [] f.pc = "replay" ->
               IF f.ri < Len(memo[f.target])
               THEN yieldUp(above \o <<[f EXCEPT !.ri = f.ri + 1]>>, memo,
                            memo[f.target][f.ri + 1])
               ELSE running(above, memo)
          [] f.pc = "loop" ->
               \* the inner generator, if any, is exhausted: next chord
               IF f.ci < Len(f.chordList)
               THEN LET out == f.chordList[f.ci + 1][1]
                        rest == slice(f.target, Len(out))
                    IN  running(above \o <<[f EXCEPT !.ci = f.ci + 1]>>
                                      \o <<newActivation(rest)>>,
                                memo)
               ELSE running(above, memoSet(memo, f.target, f.ways))

\* Run the generator from where it is suspended to its next yield, to its
\* return or to the exception that leaves it: one stretch after another.
\* (r ranges over the one outcome of the stretch; the set has one element.)
RECURSIVE resume(_, _, _)
resume(stack, memo, components) ==
    CHOOSE result \in { IF r.kind = "running"
                        THEN resume(r.stack, r.memo, components)
                        ELSE r : r \in {advance(stack, memo, components)} } : TRUE

\* The targets getPrefixChords is called with (line 94) while the generator
\* runs from where it is suspended to its next yield, return or exception,
\* in call order: a stretch makes the call when it takes an activation from
\* the start of the body into the loop over chordList.
RECURSIVE callsDuring(_, _, _)
callsDuring(stack, memo, components) ==
    CHOOSE calls \in
        { (IF /\ stack # <<>>
              /\ stack[Len(stack)].pc = "start"
              /\ r.kind = "running"
              /\ r.stack[Len(stack)].pc = "loop"
           THEN <<stack[Len(stack)].target>> ELSE <<>>)
          \o (IF r.kind = "running"
              THEN callsDuring(r.stack, r.memo, components) ELSE <<>>)
          : r \in {advance(stack, memo, components)} } : TRUE

\* gen.next(): the result and the generator afterwards
genNext(gen) == resume(gen.stack, gen.memo, gen.components)

genAfter(gen, r) == [gen EXCEPT !.stack = r.stack, !.memo = r.memo]

findSpellingsGenerator(target, components, memo) ==
    newGenerator(target, components, memo)


-----------------------------------------------------------------------------
(* Display strings *)

chordRepr(strokes) ==
    LET i == strokes[1]
        v == strokes[2]
        f == strokes[3]
        s == strokes[4]
        fDisplay == IF f # <<>> /\ startsWith(f, <<"-">>) /\ i = <<>> /\ v = <<>>
                    THEN f
                    ELSE IF startsWith(f, <<"-">>) THEN slice(f, 1) ELSE f
        joined == i \o v \o fDisplay \o s
        \* the placeholder symbol of an entirely empty chord, one character
        raw == IF joined = <<>> THEN <<"EMPTY">> ELSE joined
    IN  [k \in 1..Len(raw) |-> IF raw[k] = "|" THEN "&" ELSE raw[k]]

\* way.map(([, s]) => chordRepr(s)).join(" / ")
RECURSIVE displayOf(_)
displayOf(way) ==
    IF way = <<>> THEN <<>>
    ELSE IF Len(way) = 1 THEN chordRepr(way[1][2])
    ELSE chordRepr(way[1][2]) \o <<" ", "/", " ">> \o displayOf(Tail(way))

\* way.map(([, s]) => s)
strokesOf(way) == [k \in 1..Len(way) |-> way[k][2]]

-----------------------------------------------------------------------------
(* The worker.  Its handlers run to their next await without interruption,  *)
(* so each is one step: it takes the worker's state w (a record of the      *)
(* variables) to the state it leaves.                                       *)
(*                                                                         *)
(* log records, for the properties only, the events                         *)
(*   "receive"   onmessage took a compute request (id)                      *)
(*   "startJob"  startJob was called; job numbers the calls; the event      *)
(*               also carries the version, target and maxEntries passed;    *)
(*               n is 1 for the call of onmessage (line 199), 0 for the     *)
(*               call of a hand-off (line 173)                              *)
(*   "begin"     runJob created the generator and memo of the job; the      *)
(*               event also carries the ChordData passed                    *)
(*   "next"      the job called gen.next() n times in one batch             *)
(*   "post"      self.postMessage of a message of the given type            *)
(*   "end"       the job left the loop of runJob (return or exception)      *)
(*   "reject"    the promise of startJob rejected (the load failed); n is 1 *)
(*               when currentJobId was the id of the job at that moment     *)

YIELD_EVERY == 5

event(ev, job, id, type, n) == [ev |-> ev, job |-> job, id |-> id, type |-> type, n |-> n]

nextJobNumber(w) ==
    Cardinality({k \in 1..Len(w.log) : w.log[k].ev = "startJob"}) + 1

\* self.postMessage(msg), by the job `job`
postMessage(w, job, msg) ==
    [w EXCEPT !.posted = Append(@, msg),
              !.log = Append(@, event("post", job, msg.id, msg.type, 0))]

\* the loop of lines 160-164 passing the display strings of the whole batch
\* with the strokes of one way
RECURSIVE onChunksWholeBatch(_, _, _, _)
onChunksWholeBatch(w, job, id, batch) ==
    IF batch = <<>> THEN w
    ELSE LET way == Head(batch)
             msg == [type |-> "chunk", id |-> id,
                     spellings |-> [k \in 1..Len(batch) |-> displayOf(batch[k])],
                     ways |-> <<strokesOf(way)>>]
         IN  onChunksWholeBatch(IF w.currentJobId = <<id>> THEN postMessage(w, job, msg)
                                ELSE w,
                                job, id, Tail(batch))

\* the onChunk of startJob (lines 128-130), called once per way of the batch
RECURSIVE onChunks(_, _, _, _)
onChunks(w, job, id, batch) ==
    IF batch = <<>> THEN w
    ELSE LET way == Head(batch)
             msg == [type |-> "chunk", id |-> id,
                     spellings |-> <<displayOf(way)>>, ways |-> <<strokesOf(way)>>]
         IN  onChunks(IF w.currentJobId = <<id>> THEN postMessage(w, job, msg) ELSE w,
                      job, id, Tail(batch))

\* the for loop of lines 150-159 with i <= YIELD_EVERY as its condition
RECURSIVE batchLoopOneMore(_, _, _, _, _, _)
batchLoopOneMore(i, gen, total, maxEntries, batch, nexts) ==
    LET stop(g, done, threw, n) ==
            [gen |-> g, total |-> total, batch |-> batch,
             generatorDone |-> done, threw |-> threw, nexts |-> n]
    IN  IF i > YIELD_EVERY THEN stop(gen, FALSE, FALSE, nexts)
        ELSE IF maxEntries # <<>> /\ total >= maxEntries[1]
        THEN stop(gen, FALSE, FALSE, nexts)
        ELSE LET r == genNext(gen)
             IN  IF r.kind = "throw" THEN stop(genAfter(gen, r), FALSE, TRUE, nexts + 1)
                 ELSE IF r.kind = "return"
                 THEN stop(genAfter(gen, r), TRUE, FALSE, nexts + 1)
                 ELSE batchLoopOneMore(i + 1, genAfter(gen, r), total + 1, maxEntries,
                                       Append(batch, r.value), nexts + 1)

\* the for loop of lines 150-159 testing total > maxEntries at line 151
RECURSIVE batchLoopPastCap(_, _, _, _, _, _)
batchLoopPastCap(i, gen, total, maxEntries, batch, nexts) ==
    LET stop(g, done, threw, n) ==
            [gen |-> g, total |-> total, batch |-> batch,
             generatorDone |-> done, threw |-> threw, nexts |-> n]
    IN  IF i >= YIELD_EVERY THEN stop(gen, FALSE, FALSE, nexts)
        ELSE IF maxEntries # <<>> /\ total > maxEntries[1]
        THEN stop(gen, FALSE, FALSE, nexts)
        ELSE LET r == genNext(gen)
             IN  IF r.kind = "throw" THEN stop(genAfter(gen, r), FALSE, TRUE, nexts + 1)
                 ELSE IF r.kind = "return"
                 THEN stop(genAfter(gen, r), TRUE, FALSE, nexts + 1)
                 ELSE batchLoopPastCap(i + 1, genAfter(gen, r), total + 1, maxEntries,
                                       Append(batch, r.value), nexts + 1)

\* the for loop of lines 150-159, from iteration i
RECURSIVE batchLoop(_, _, _, _, _, _)
batchLoop(i, gen, total, maxEntries, batch, nexts) ==
    LET stop(g, done, threw, n) ==
            [gen |-> g, total |-> total, batch |-> batch,
             generatorDone |-> done, threw |-> threw, nexts |-> n]
    IN  IF i >= YIELD_EVERY THEN stop(gen, FALSE, FALSE, nexts)
        ELSE IF maxEntries # <<>> /\ total >= maxEntries[1]
        THEN stop(gen, FALSE, FALSE, nexts)
        ELSE LET r == genNext(gen)
             IN  IF r.kind = "throw" THEN stop(genAfter(gen, r), FALSE, TRUE, nexts + 1)
                 ELSE IF r.kind = "return"
                 THEN stop(genAfter(gen, r), TRUE, FALSE, nexts + 1)
                 ELSE batchLoop(i + 1, genAfter(gen, r), total + 1, maxEntries,
                                Append(batch, r.value), nexts + 1)

\* One pass of the while loop of runJob (lines 149-169) by the job j, up to
\* its return, its exception or its await.
loopPass(w, j) ==
    LET b  == batchLoop(0, j.gen, j.total, j.maxEntries, <<>>, 0)
        w1 == [w EXCEPT !.log = IF b.nexts > 0
                                THEN Append(@, event("next", j.job, j.id, "", b.nexts))
                                ELSE @]
        ended(x) == [x EXCEPT !.log = Append(@, event("end", j.job, j.id, "", 0))]
    IN  IF b.threw
        THEN \* the loop is left by the exception: finally (line 178); the
             \* catch of lines 180-189 is a reaction of the promise, which
             \* runs once the code that is running has returned
             [ended([w1 EXCEPT !.jobRunning = FALSE])
                 EXCEPT !.microtasks = Append(@, [job |-> j.job, id |-> j.id])]
        ELSE
        LET w2 == onChunks(w1, j.job, j.id, b.batch)
        IN  IF b.generatorDone \/ (j.maxEntries # <<>> /\ b.total >= j.maxEntries[1])
            THEN LET msg == [type |-> "resultDone", id |-> j.id, total |-> b.total]
                     w3  == IF w2.currentJobId = <<j.id>>
                            THEN postMessage(w2, j.job, msg) ELSE w2
                 IN  ended([w3 EXCEPT !.jobRunning = FALSE])
            ELSE [w2 EXCEPT !.ticking = @ \cup {[j EXCEPT !.gen = b.gen,
                                                          !.total = b.total]}]

\* the catch of runJob (lines 180-189) for each job whose loop threw, in
\* the order of the exceptions: the microtasks left by a handler
RECURSIVE runMicrotasks(_)
runMicrotasks(w) ==
    IF w.microtasks = <<>> THEN w
    ELSE LET m   == Head(w.microtasks)
             w1  == [w EXCEPT !.microtasks = Tail(@), !.jobRunning = FALSE]
             msg == [type |-> "error", id |-> m.id,
                     message |-> "memo[target] is not iterable"]
         IN  runMicrotasks(IF w1.currentJobId = <<m.id>>
                           THEN postMessage(w1, m.job, msg) ELSE w1)

\* runJob (lines 133-190) up to the first await of its async body
runJob(w, job, id, data, target, maxEntries) ==
    LET components == buildComponents(data)
        memo == EmptyMemo
        gen == findSpellingsGenerator(target, components, memo)
        w1 == [w EXCEPT !.jobRunning = TRUE,
                        !.log = Append(@, [ev |-> "begin", job |-> job, id |-> id,
                                           type |-> "", n |-> 0, data |-> data])]
    IN  loopPass(w1, [job |-> job, id |-> id, maxEntries |-> maxEntries,
                      gen |-> gen, total |-> 0])

\* startJob (lines 115-131) up to its await; hasCatch tells whether the
\* caller attached a rejection handler (line 199) or not (line 173); stage
\* tells the await a suspended call stands at: "fetch" (line 123) or "json"
\* (line 125)
startJob(w, id, version, target, maxEntries, hasCatch) ==
    LET job == nextJobNumber(w)
        w1 == [w EXCEPT !.log = Append(@, [ev |-> "startJob", job |-> job, id |-> id,
                                           type |-> "", n |-> IF hasCatch THEN 1 ELSE 0,
                                           version |-> version,
                                           target |-> target, maxEntries |-> maxEntries])]
    IN  IF version \in DOMAIN w1.cache
        THEN runJob(w1, job, id, w1.cache[version], target, maxEntries)
        ELSE [w1 EXCEPT !.loading = @ \cup
                {[job |-> job, id |-> id, version |-> version, target |-> target,
                  maxEntries |-> maxEntries, hasCatch |-> hasCatch,
                  stage |-> "fetch"]}]

\* self.onmessage for a compute message (lines 192-208)
onmessage(w, req) ==
    LET w1 == [w EXCEPT !.currentJobId = <<req.id>>,
                        !.pendingJob = <<req>>,
                        !.log = Append(@, event("receive", 0, req.id, "", 0))]
    IN  IF ~w1.jobRunning
        THEN runMicrotasks(startJob([w1 EXCEPT !.pendingJob = <<>>],
                                    req.id, req.version, req.target, req.maxEntries,
                                    TRUE))
        ELSE w1

\* the awaits of startJob resolved, without the assignment of line 126
loadResolvedNoStore(w, l, data) ==
    runMicrotasks(runJob([w EXCEPT !.loading = @ \ {l}], l.job, l.id, data, l.target,
                         l.maxEntries))

\* the fetch of startJob resolved with an ok response: the call goes on to
\* `await res.json()` (lines 123-125)
fetchResolved(w, l) ==
    [w EXCEPT !.loading = (@ \ {l}) \cup {[l EXCEPT !.stage = "json"]}]

\* json() gave data (lines 125-130)
loadResolved(w, l, data) ==
    LET w1 == [w EXCEPT !.loading = @ \ {l},
                        !.cache = [v \in (DOMAIN @) \cup {l.version} |->
                                      IF v = l.version THEN data ELSE @[v]]]
    IN  runMicrotasks(runJob(w1, l.job, l.id, data, l.target, l.maxEntries))

\* the bodies of an ok response that are not JSON, of which a run draws: a
\* page of HTML (what a server answers for a file it does not have)
BadBodies ==
    { <<"<","h","t","m","l",">","<","b","o","d","y",">","4","0","4",
        "<","/","b","o","d","y",">","<","/","h","t","m","l",">">> }

\* the ways a load fails: fetch rejects, the response is not ok (line
\* 124), json() rejects the body; the first two end the await of line 123,
\* the third that of line 125
failuresAt(stage) ==
    IF stage = "fetch"
    THEN {[kind |-> k, body |-> <<>>] : k \in {"fetch", "notOk"}}
    ELSE {[kind |-> "json", body |-> b] : b \in BadBodies}

\* the text of the TypeError with which fetch rejects, worded by the
\* environment
FetchRejectionText == "Failed to fetch"

\* the text of the error with which json() rejects a body whose first
\* character cannot begin a JSON text, as the engine words it: a body of
\* up to 20 characters is quoted whole, of a longer one the first 10
JsonRejectionText(body) ==
    IF body = <<>>
    THEN <<"Failed to execute 'json' on 'Response': Unexpected end of JSON input">>
    ELSE <<"Unexpected token '", Head(body), "', \"">>
         \o (IF Len(body) <= 20 THEN body \o <<"\"">>
             ELSE SubSeq(body, 1, 10) \o <<"\"...">>)
         \o <<" is not valid JSON">>

\* err.message: the text of line 124 for a response that is not ok, else
\* the text of the rejection of fetch or of json()
messageOf(why, version) ==
    CASE why.kind = "notOk" -> <<"Failed to load ", version>>
      [] why.kind = "fetch" -> <<FetchRejectionText>>
      [] why.kind = "json"  -> JsonRejectionText(why.body)

\* the load failed in the way `why`: startJob rejects, and the handler of
\* line 199, if attached, runs
loadRejected(w, l, why) ==
    LET w1 == [w EXCEPT !.loading = @ \ {l},
                        !.log = Append(@, event("reject", l.job, l.id, "",
                                                IF w.currentJobId = <<l.id>> THEN 1 ELSE 0))]
        msg == [type |-> "error", id |-> l.id, message |-> messageOf(why, l.version)]
    IN  IF l.hasCatch
        THEN postMessage([w1 EXCEPT !.currentJobId = <<>>], l.job, msg)
        ELSE w1

\* the timer of line 169 fired for the job j (lines 170-176, 178)
tick(w, j) ==
    LET w1 == [w EXCEPT !.ticking = @ \ {j}]
    IN  IF w1.currentJobId # <<j.id>>
        THEN \* startJob (line 173) is called inside the loop of the old job,
             \* which returns, through finally (line 178), after it
             LET next == w1.pendingJob
                 w2 == [w1 EXCEPT !.pendingJob = <<>>]
                 w3 == IF next # <<>>
                       THEN startJob(w2, next[1].id, next[1].version, next[1].target,
                                     next[1].maxEntries, FALSE)
                       ELSE w2
             IN  runMicrotasks([w3 EXCEPT !.jobRunning = FALSE,
                                          !.log = Append(@, event("end", j.job, j.id,
                                                                  "", 0))])
        ELSE runMicrotasks(loopPass(w1, j))

-----------------------------------------------------------------------------
(* Inputs of the bounded checks *)

\* longest target made of the letters of Letters
MaxLen == 3

Letters == {"t", "a"}

RECURSIVE stringsUpTo(_)
stringsUpTo(n) ==
    IF n = 0 THEN {<<>>}
    ELSE LET shorter == stringsUpTo(n - 1)
         IN  shorter \cup {Append(s, c) : s \in {x \in shorter : Len(x) = n - 1},
                                           c \in Letters}

Constructor == <<"c","o","n","s","t","r","u","c","t","o","r">>

\* a target of four letters for which taking the longest chord first costs
\* a chord more (over GreedyData below)
GreedyTarget == <<"t","t","a","a">>

Targets == stringsUpTo(MaxLen) \cup {Constructor, <<"t">> \o Constructor, GreedyTarget}

\* A mapping of a table file is <<entries>>; <<>> is a key the file lacks.
NoMap == <<>>

EmptyMap == << <<>> >>

\* The tables of the example of the specification: initials {"T":"t"},
\* vowels {"A":"a"}, finals {}, suffixes {}.
ExampleData ==
    [initials |-> << << <<<<"T">>, <<"t">>>> >> >>,
     vowels   |-> << << <<<<"A">>, <<"a">>>> >> >>,
     finals   |-> EmptyMap,
     suffix   |-> NoMap,
     suffixes |-> EmptyMap]

\* Chords that share an output, and a chord of two letters.
HomophoneData ==
    [initials |-> << << <<<<"T">>, <<"t">>>>, <<<<"D">>, <<"t">>>>,
                        <<<<"T","A">>, <<"t","a">>>> >> >>,
     vowels   |-> << << <<<<"A">>, <<"a">>>> >> >>,
     finals   |-> NoMap,
     suffix   |-> NoMap,
     suffixes |-> NoMap]

\* Fragments that are not literal, and an empty `suffix` next to `suffixes`.
TemplatedData ==
    [initials |-> << << <<<<"T">>, <<"t">>>> >> >>,
     vowels   |-> << << <<<<"E">>, <<"{","a","}">>>> >> >>,
     finals   |-> << << <<<<"-","T">>, <<"t","t">>>> >> >>,
     suffix   |-> EmptyMap,
     suffixes |-> << << <<<<"Z">>, <<"a","|","t">>>> >> >>]

\* Both `suffix` and `suffixes` filled, and an empty identifier that
\* produces a fragment.
SuffixData ==
    [initials |-> NoMap,
     vowels   |-> << << <<<<>>, <<"a">>>> >> >>,
     finals   |-> << << <<<<"-","T">>, <<"t">>>> >> >>,
     suffix   |-> << << <<<<"S">>, <<"a">>>> >> >>,
     suffixes |-> << << <<<<"Z">>, <<"t">>>> >> >>]

\* A chord that produces the word "constructor".
ConstructorData ==
    [initials |-> << << <<<<"C">>, Constructor>>, <<<<"T">>, <<"t">>>> >> >>,
     vowels   |-> NoMap,
     finals   |-> NoMap,
     suffix   |-> NoMap,
     suffixes |-> NoMap]

\* The chords "tt" and "t" are both prefixes of "ttaa"; after "tt" the rest
\* "aa" takes two chords, after "t" the rest "taa" is one chord.
GreedyData ==
    [initials |-> << << <<<<"T">>, <<"t">>>>, <<<<"T","A","A">>, <<"t","a","a">>>> >> >>,
     vowels   |-> << << <<<<"A">>, <<"a">>>> >> >>,
     finals   |-> << << <<<<"-","T","T">>, <<"t","t">>>> >> >>,
     suffix   |-> NoMap,
     suffixes |-> NoMap]

\* No key at all.
NoData ==
    [initials |-> NoMap, vowels |-> NoMap, finals |-> NoMap,
     suffix |-> NoMap, suffixes |-> NoMap]

Tables ==
    {ExampleData, HomophoneData, TemplatedData, SuffixData, ConstructorData,
     GreedyData, NoData}

-----------------------------------------------------------------------------
(* The page before its script has run (main.ts lines 85-86 and 222-225;    *)
(* the three fields hold nothing, the output is empty).                    *)

HostInit ==
    /\ requestId = 0
    /\ totalShownForRequest = 0
    /\ versionEl = "v1"
    /\ inputEl = <<>>
    /\ maxEntriesEl = <<>>
    /\ outputEl = [kind |-> "empty", rows |-> <<>>]
    /\ outputCountEl = <<>>
    /\ csvTableData = <<>>
    /\ csvTbody = <<>>
    /\ csvWordQueue = <<>>
    /\ csvCurrentWord = <<>>
    /\ csvDisabled = FALSE
    /\ toWorker = <<>>
    /\ hostSeen = 0
    /\ hostDropped = 0
    /\ csvBatches = 0
    /\ csvWords = <<>>
    /\ csvAsked = <<>>

-----------------------------------------------------------------------------
(* The worker's initial state (module initialisation, lines 109-113) *)

WorkerInit ==
    /\ currentJobId = <<>>
    /\ jobRunning = FALSE
    /\ pendingJob = <<>>
    /\ cache = <<>>
    /\ loading = {}
    /\ ticking = {}
    /\ posted = <<>>
    /\ log = <<>>

-----------------------------------------------------------------------------
(* A search driven to its end by repeated gen.next(), as the loop of runJob *)
(* drives it (line 152), for every target and table of the bounds.          *)

SearchInit ==
    /\ WorkerInit
    /\ HostInit
    /\ sTarget \in Targets
    /\ sData \in Tables
    /\ sGen = findSpellingsGenerator(sTarget, buildComponents(sData), EmptyMemo)
    /\ sOut = <<>>
    /\ sState = "suspended"
    /\ sCalls = <<>>

\* gen.next() returns {value, done: false}
SearchYield ==
    /\ sState = "suspended"
    /\ LET r == genNext(sGen)
       IN  /\ r.kind = "yield"
           /\ sGen' = genAfter(sGen, r)
           /\ sOut' = Append(sOut, r.value)
    /\ sCalls' = sCalls \o callsDuring(sGen.stack, sGen.memo, sGen.components)
    /\ UNCHANGED <<sTarget, sData, sState, workerVars, historyVars, hostVars>>

\* gen.next() returns {done: true}
SearchReturn ==
    /\ sState = "suspended"
    /\ LET r == genNext(sGen)
       IN  /\ r.kind = "return"
           /\ sGen' = genAfter(sGen, r)
    /\ sState' = "done"
    /\ sCalls' = sCalls \o callsDuring(sGen.stack, sGen.memo, sGen.components)
    /\ UNCHANGED <<sTarget, sData, sOut, workerVars, historyVars, hostVars>>

\* gen.next() throws
SearchThrow ==
    /\ sState = "suspended"
    /\ LET r == genNext(sGen)
       IN  /\ r.kind = "throw"
           /\ sGen' = genAfter(sGen, r)
    /\ sState' = "threw"
    /\ sCalls' = sCalls \o callsDuring(sGen.stack, sGen.memo, sGen.components)
    /\ UNCHANGED <<sTarget, sData, sOut, workerVars, historyVars, hostVars>>

SearchNext == SearchYield \/ SearchReturn \/ SearchThrow

SearchSpec == SearchInit /\ [][SearchNext]_vars


-----------------------------------------------------------------------------
(* Properties of the search *)

Range(seq) == {seq[i] : i \in 1..Len(seq)}

\* the outputs of a Spelling, concatenated in order
RECURSIVE concatOutputs(_)
concatOutputs(way) ==
    IF way = <<>> THEN <<>> ELSE Head(way)[1] \o concatOutputs(Tail(way))

\* the chords the enumerator produces for the tables of the search
sChords == Range(allChordOutputs(buildComponents(sData)))

\* every sequence of chords of non-empty output whose outputs concatenate to t
RECURSIVE spellingsOf(_, _)
spellingsOf(t, chords) ==
    IF t = <<>> THEN {<<>>}
    ELSE UNION { {<<c>> \o r : r \in spellingsOf(slice(t, Len(c[1])), chords)} :
                 c \in {x \in chords : x[1] # <<>> /\ startsWith(t, x[1])} }

\* C8: every Spelling the search has yielded, for any target and tables,
\* has outputs that concatenate to exactly the target.
SearchSound == \A i \in 1..Len(sOut) : concatOutputs(sOut[i]) = sTarget

\* a finished search of a three-letter target that yielded several
\* Spellings, one of them of two chords or more
SearchSoundWitness ==
    /\ sState = "done"
    /\ Len(sTarget) >= 3
    /\ Len(sOut) >= 3
    /\ \E i \in 1..Len(sOut) : Len(sOut[i]) >= 2

\* C9: when the search has ended, what it yielded is every sequence of
\* enumerated chords of non-empty output that concatenates to the target,
\* and nothing else.
SearchComplete ==
    sState # "suspended" => Range(sOut) = spellingsOf(sTarget, sChords)

\* C10 as stated: with the example tables the search for "ta" yields
\* exactly one Spelling, [("ta", ["T","A","",""])].
ExampleOneSpelling ==
    (sData = ExampleData /\ sTarget = <<"t","a">>) =>
        /\ sState # "threw"
        /\ Len(sOut) <= 1
        /\ (sState = "done") =>
              (sOut = << << << <<"t","a">>, << <<"T">>, <<"A">>, <<>>, <<>> >> >> >> >>)

\* C10 as amended: with the example tables the search for "ta" yields
\* exactly two Spellings: first [("ta", ["T","A","",""])], then
\* [("t", ["T","","",""]), ("a", ["","A","",""])].
ExampleTwoSpellings ==
    LET whole == << << <<"t","a">>, << <<"T">>, <<"A">>, <<>>, <<>> >> >> >>
        split == << << <<"t">>, << <<"T">>, <<>>, <<>>, <<>> >> >>,
                    << <<"a">>, << <<>>, <<"A">>, <<>>, <<>> >> >> >>
    IN  (sData = ExampleData /\ sTarget = <<"t","a">>) =>
            /\ sState # "threw"
            /\ sOut = SubSeq(<<whole, split>>, 1, Len(sOut))
            /\ (sState = "done") => (Len(sOut) = 2)

\* the search for "ta" over the example tables has ended
ExampleTwoSpellingsWitness ==
    /\ sData = ExampleData
    /\ sTarget = <<"t","a">>
    /\ sState = "done"
    /\ Len(sOut) = 2


\* the outputs of the chords of a Spelling, in order
outputsOf(way) == [k \in 1..Len(way) |-> way[k][1]]

\* C15: no Spelling is yielded twice by one search: the Spellings at two
\* different positions of the yielded sequence differ as sequences of
\* (output, Stroke) pairs.
NoSpellingTwice ==
    \A i, j \in 1..Len(sOut) : i # j => sOut[i] # sOut[j]

\* a finished search of a three-letter target in which two Spellings have
\* the same outputs and differ by their strokes only, and a suffix of two
\* letters was reached through two different first chords (so that its
\* Spellings were replayed from the memo)
NoSpellingTwiceWitness ==
    /\ sState = "done"
    /\ Len(sTarget) = 3
    /\ \E i, j \in 1..Len(sOut) :
          /\ i # j
          /\ outputsOf(sOut[i]) = outputsOf(sOut[j])
          /\ sOut[i][1] # sOut[j][1]
          /\ Tail(sOut[i]) = Tail(sOut[j])
          /\ Len(sOut[i]) >= 2
    /\ slice(sTarget, 1) \in DOMAIN sGen.memo

-----------------------------------------------------------------------------
(* The worker under every sequence of at most MaxRequests compute requests, *)
(* every order of fetch completions and timer ticks, every fetch outcome.   *)

\* the requests the worker receives in one run
MaxRequests == 3

Versions == {"v1", "v2"}

\* the table file of each version
versionData(version) == IF version = "v1" THEN HomophoneData ELSE ConstructorData

\* The requests the worker may receive, with two ids so that an id can come
\* again: a long search (8 Spellings, more than a batch), the same capped
\* after the first batch, and a target without Spelling in a second version.
Requests ==
    { [id |-> 1, version |-> "v1", target |-> <<"t","t","t">>, maxEntries |-> <<>>],
      [id |-> 2, version |-> "v1", target |-> <<"t","t","t">>, maxEntries |-> <<6>>],
      [id |-> 2, version |-> "v2", target |-> <<"t","a">>, maxEntries |-> <<>>] }

worker ==
    [currentJobId |-> currentJobId, jobRunning |-> jobRunning,
     pendingJob |-> pendingJob, cache |-> cache, loading |-> loading,
     ticking |-> ticking, posted |-> posted, log |-> log, microtasks |-> <<>>]

becomes(w) ==
    /\ currentJobId' = w.currentJobId
    /\ jobRunning' = w.jobRunning
    /\ pendingJob' = w.pendingJob
    /\ cache' = w.cache
    /\ loading' = w.loading
    /\ ticking' = w.ticking
    /\ posted' = w.posted
    /\ log' = w.log

receivedCount == Cardinality({k \in 1..Len(log) : log[k].ev = "receive"})

Init ==
    /\ WorkerInit
    /\ HostInit
    /\ sTarget = <<>>
    /\ sData = NoData
    /\ sGen = findSpellingsGenerator(sTarget, buildComponents(sData), EmptyMemo)
    /\ sOut = <<>>
    /\ sState = "suspended"
    /\ sCalls = <<>>

Receive ==
    /\ receivedCount < MaxRequests
    /\ \E req \in Requests : becomes(onmessage(worker, req))
    /\ UNCHANGED <<searchVars, hostVars>>

\* the fetch of a job resolved with an ok response
FetchOk ==
    /\ \E l \in loading : l.stage = "fetch" /\ becomes(fetchResolved(worker, l))
    /\ UNCHANGED <<searchVars, hostVars>>

\* json() of a job resolved
LoadOk ==
    /\ \E l \in loading :
          l.stage = "json" /\ becomes(loadResolved(worker, l, versionData(l.version)))
    /\ UNCHANGED <<searchVars, hostVars>>

\* the load of a job failed at the await it stands at
LoadFail ==
    /\ \E l \in loading : \E why \in failuresAt(l.stage) :
          becomes(loadRejected(worker, l, why))
    /\ UNCHANGED <<searchVars, hostVars>>

Tick ==
    /\ \E j \in ticking : becomes(tick(worker, j))
    /\ UNCHANGED <<searchVars, hostVars>>

Next == Receive \/ FetchOk \/ LoadOk \/ LoadFail \/ Tick

Spec == Init /\ [][Next]_vars


-----------------------------------------------------------------------------
(* Properties of the worker, read off the log *)

Events == 1..Len(log)

JobNumbers == {log[k].job : k \in {e \in Events : log[e].ev = "startJob"}}

\* the event at which startJob was called for job j, and the id it carries
startOf(j) == CHOOSE k \in Events : log[k].ev = "startJob" /\ log[k].job = j

idOfJob(j) == log[startOf(j)].id

\* an event `ev` of job j lies strictly before event k
before(ev, j, k) == \E m \in 1..(k - 1) : log[m].ev = ev /\ log[m].job = j

\* just before event k, job j is Running: its generator and memo exist and
\* it has not left its loop (it is suspended at its tick)
runningAt(j, k) == before("begin", j, k) /\ ~before("end", j, k)

isTerminal(e) == e.ev = "post" /\ e.type \in {"resultDone", "error"}

Quiescent == loading = {} /\ ticking = {}

\* C1: once a request with another id was received while a job was Running,
\* that job posts no chunk, resultDone or error any more.
SupersededJobSilent ==
    \A k \in Events : \A j \in JobNumbers :
        (log[k].ev = "receive" /\ runningAt(j, k) /\ idOfJob(j) # log[k].id) =>
            \A m \in Events : m > k => ~(log[m].ev = "post" /\ log[m].job = j)

\* C2: when a request was received while a job of another id was Running,
\* no later request arrived and nothing is left to run, a terminal message
\* carrying the id of that request has been posted.
SupersederTerminates ==
    \A k \in Events :
        ( /\ log[k].ev = "receive"
          /\ \A m \in Events : m > k => log[m].ev # "receive"
          /\ \E j \in JobNumbers : runningAt(j, k) /\ idOfJob(j) # log[k].id
          /\ Quiescent ) =>
            \E m \in Events : m > k /\ isTerminal(log[m]) /\ log[m].id = log[k].id

\* C3: a job begins (its generator and memo are created) only when no other
\* job has begun and not yet left its loop.
OneJobLive ==
    \A k \in Events : log[k].ev = "begin" =>
        \A j \in JobNumbers : j # log[k].job => ~runningAt(j, k)

\* C4: once a request with another id was received while a job was Running,
\* that job never calls gen.next() again.
SupersededJobStops ==
    \A k \in Events : \A j \in JobNumbers :
        (log[k].ev = "receive" /\ runningAt(j, k) /\ idOfJob(j) # log[k].id) =>
            \A m \in Events : m > k => ~(log[m].ev = "next" /\ log[m].job = j)

\* C5: a request received while a job is Running is not started by
\* onmessage (it waits as pendingJob), and a job started at a hand-off
\* carries the id of the request received last.
PendingHeld ==
    /\ \A k \in Events :
          (log[k].ev = "receive" /\ \E j \in JobNumbers : runningAt(j, k)) =>
              ~(k < Len(log) /\ log[k + 1].ev = "startJob" /\ log[k + 1].n = 1)
    /\ \A k \in Events :
          (log[k].ev = "startJob" /\ log[k].n = 0) =>
              \E r \in 1..(k - 1) :
                  /\ log[r].ev = "receive"
                  /\ log[r].id = log[k].id
                  /\ \A m \in (r + 1)..(k - 1) : log[m].ev # "receive"

\* the job j is over: it left its loop, or its load failed
jobOver(j) ==
    \E k \in Events : log[k].job = j /\ log[k].ev \in {"end", "reject"}

\* no request was received after the one job j was started for
neverSuperseded(j) ==
    \A k \in Events : k > startOf(j) => log[k].ev # "receive"

\* C6: a job that is over and was never superseded has posted exactly one
\* terminal message, and no chunk after it.
OneTerminalMessage ==
    \A j \in JobNumbers : (jobOver(j) /\ neverSuperseded(j)) =>
        /\ Cardinality({k \in Events : isTerminal(log[k]) /\ log[k].job = j}) = 1
        /\ \A k, m \in Events :
              (isTerminal(log[k]) /\ log[k].job = j /\ m > k) =>
                  ~(log[m].ev = "post" /\ log[m].job = j)

\* C7: when the load of a job fails while currentJobId is the id of the job,
\* exactly one error carrying that id is posted for it, and the job is
\* never run.
LoadFailureReported ==
    \A k \in Events : (log[k].ev = "reject" /\ log[k].n = 1) =>
        /\ Cardinality({m \in Events : /\ log[m].ev = "post"
                                       /\ log[m].type = "error"
                                       /\ log[m].job = log[k].job
                                       /\ log[m].id = log[k].id}) = 1
        /\ \A m \in Events : log[m].job = log[k].job => log[m].ev # "begin"

-----------------------------------------------------------------------------
(* One job on its own: a single compute request of any target and cap of   *)
(* the bounds, whose table file is any of Tables or fails to load.          *)

\* the largest maxEntries of a request
MaxCap == 7

\* maxEntries?: absent or a positive integer
Caps == {<<>>} \cup {<<k>> : k \in 1..MaxCap}

JobReceive ==
    /\ receivedCount = 0
    /\ \E t \in Targets, m \in Caps :
          becomes(onmessage(worker, [id |-> 1, version |-> "v1",
                                     target |-> t, maxEntries |-> m]))
    /\ UNCHANGED <<searchVars, hostVars>>

JobLoadOk ==
    /\ \E l \in loading, d \in Tables :
          l.stage = "json" /\ becomes(loadResolved(worker, l, d))
    /\ UNCHANGED <<searchVars, hostVars>>

JobNext == JobReceive \/ FetchOk \/ JobLoadOk \/ LoadFail \/ Tick

JobSpec == Init /\ [][JobNext]_vars

-----------------------------------------------------------------------------
(* What the log and the posted messages tell about a job *)

\* the message of the post event k: posts and messages are in the same order
msgAt(k) == posted[Cardinality({m \in 1..k : log[m].ev = "post"})]

\* the event at which job j began, the arguments it was started with
beginOf(j) == CHOOSE k \in Events : log[k].ev = "begin" /\ log[k].job = j

hasBegun(j) == \E k \in Events : log[k].ev = "begin" /\ log[k].job = j

targetOfJob(j) == log[startOf(j)].target

maxEntriesOfJob(j) == log[startOf(j)].maxEntries

dataOfJob(j) == log[beginOf(j)].data

\* the stroke sequences delivered in the chunks job j posted among the
\* events 1..k, in posting order
RECURSIVE delivered(_, _)
delivered(j, k) ==
    IF k = 0 THEN <<>>
    ELSE IF log[k].ev = "post" /\ log[k].job = j /\ log[k].type = "chunk"
         THEN delivered(j, k - 1) \o msgAt(k).ways
         ELSE delivered(j, k - 1)

\* the number of gen.next() calls job j has made: one pair <<k, i>> for the
\* i-th call of the batch logged at event k
nextCalls(j) ==
    Cardinality(UNION { {<<k, i>> : i \in 1..log[k].n} :
                        k \in {e \in Events : log[e].ev = "next" /\ log[e].job = j} })

\* what a search yields when gen.next() is called until it returns or throws
RECURSIVE drain(_)
drain(gen) ==
    LET r == genNext(gen)
    IN  IF r.kind = "yield" THEN <<r.value>> \o drain(genAfter(gen, r)) ELSE <<>>

\* the search of job j, from a fresh memo, run to exhaustion
fullRunOfJob(j) ==
    drain(findSpellingsGenerator(targetOfJob(j), buildComponents(dataOfJob(j)),
                                 EmptyMemo))

\* the Spellings of the target of job j over the chords of its tables
solutionsOfJob(j) ==
    spellingsOf(targetOfJob(j), Range(allChordOutputs(buildComponents(dataOfJob(j)))))

isPrefix(s, t) == Len(s) <= Len(t) /\ s = SubSeq(t, 1, Len(s))

postsOfJob(j, type) ==
    {k \in Events : log[k].ev = "post" /\ log[k].job = j /\ log[k].type = type}

\* C11: a resultDone of a job with maxEntries = k carries total <= k, and
\* total = k when the target has more than k Spellings; the job calls
\* gen.next() at most k times in all, so never once total has reached k.
CapRespected ==
    \A j \in JobNumbers : maxEntriesOfJob(j) # <<>> =>
        /\ nextCalls(j) <= maxEntriesOfJob(j)[1]
        /\ \A e \in postsOfJob(j, "resultDone") :
              /\ msgAt(e).total <= maxEntriesOfJob(j)[1]
              /\ Cardinality(solutionsOfJob(j)) > maxEntriesOfJob(j)[1] =>
                    msgAt(e).total = maxEntriesOfJob(j)[1]

\* a job capped at more than one batch, whose target has more Spellings
\* than the cap, has posted resultDone with total equal to the cap
CapRespectedWitness ==
    \E j \in JobNumbers :
        /\ maxEntriesOfJob(j) # <<>>
        /\ maxEntriesOfJob(j)[1] > YIELD_EVERY
        /\ hasBegun(j)
        /\ Cardinality(solutionsOfJob(j)) > maxEntriesOfJob(j)[1]
        /\ \E e \in postsOfJob(j, "resultDone") :
              msgAt(e).total = maxEntriesOfJob(j)[1]

\* C12: the total of a resultDone equals the number of Spellings delivered
\* in the chunks posted for the same job.
TotalCountsDelivered ==
    \A j \in JobNumbers : \A e \in postsOfJob(j, "resultDone") :
        msgAt(e).total = Len(delivered(j, e))

\* C13: the Spellings delivered in the chunks of a job, in posting order,
\* are a prefix of what the search for its target and tables yields when
\* run to exhaustion.
DeliveredIsPrefix ==
    \A j \in JobNumbers : hasBegun(j) =>
        isPrefix(delivered(j, Len(log)),
                 [i \in 1..Len(fullRunOfJob(j)) |-> strokesOf(fullRunOfJob(j)[i])])

\* the job j has left the loop of runJob
hasEnded(j) == \E k \in Events : log[k].ev = "end" /\ log[k].job = j

\* C16: a job whose target has no Spelling posts no chunk and no error, and
\* when it has ended it has posted resultDone with total 0.
NoSolutionIsNoError ==
    \A j \in JobNumbers : (hasBegun(j) /\ solutionsOfJob(j) = {}) =>
        /\ postsOfJob(j, "chunk") = {}
        /\ postsOfJob(j, "error") = {}
        /\ hasEnded(j) => \E e \in postsOfJob(j, "resultDone") : msgAt(e).total = 0

\* C17: a job for the empty target, whatever the tables, finds exactly one
\* Spelling, the empty sequence: when it has ended it has posted one chunk,
\* holding the empty sequence of strokes, then resultDone with total 1 and no
\* error, and unless the cap stopped it at 1 its second gen.next() was the
\* one that found the search exhausted.
EmptyTargetOneSpelling ==
    \A j \in JobNumbers : (hasBegun(j) /\ targetOfJob(j) = <<>> /\ hasEnded(j)) =>
        /\ delivered(j, Len(log)) = << <<>> >>
        /\ Cardinality(postsOfJob(j, "chunk")) = 1
        /\ postsOfJob(j, "error") = {}
        /\ Cardinality(postsOfJob(j, "resultDone")) = 1
        /\ \A e \in postsOfJob(j, "resultDone") : msgAt(e).total = 1
        /\ nextCalls(j) = IF maxEntriesOfJob(j) = <<1>> THEN 1 ELSE 2

\* an uncapped job for the empty target over tables that have chords has
\* ended
EmptyTargetOneSpellingWitness ==
    \E j \in JobNumbers :
        /\ hasBegun(j)
        /\ targetOfJob(j) = <<>>
        /\ maxEntriesOfJob(j) = <<>>
        /\ dataOfJob(j) = HomophoneData
        /\ hasEnded(j)
        /\ postsOfJob(j, "resultDone") # {}

-----------------------------------------------------------------------------
(* The cache of tables *)

\* the events the step appends to the log
newEvents == (Len(log) + 1)..Len(log')

versionOfJob(j) == log[startOf(j)].version

\* the loads that are over after the step, and whether one of them failed
loadsOver == {x \in loading : \A y \in loading' : y.job # x.job}

loadFailed(l) == \E k \in newEvents : log'[k].ev = "reject" /\ log'[k].job = l.job

\* One step of the worker, seen from the cache, but for the failed loads:
\*  - an entry, once stored, stays and keeps its table;
\*  - a load that succeeds stores under its version the table the job is
\*    then run with;
\*  - a fetch that resolves stores nothing yet (the table comes with json());
\*  - startJob for a cached version runs the job on the cached table at once
\*    and fetches nothing, startJob for any other version fetches.
CacheStepOfSuccess ==
    /\ \A v \in DOMAIN cache : v \in DOMAIN cache' /\ cache'[v] = cache[v]
    /\ \A l \in loadsOver : ~loadFailed(l) =>
          /\ l.version \in DOMAIN cache'
          /\ \E k \in newEvents : /\ log'[k].ev = "begin"
                                  /\ log'[k].job = l.job
                                  /\ log'[k].data = cache'[l.version]
    /\ (\E x \in loading, y \in loading' : y.job = x.job /\ y.stage # x.stage) =>
          cache' = cache
    /\ \A k \in newEvents : log'[k].ev = "startJob" =>
          IF log'[k].version \in DOMAIN cache
          THEN /\ \A l \in loading' : l.job # log'[k].job
               /\ k < Len(log')
               /\ log'[k + 1].ev = "begin"
               /\ log'[k + 1].job = log'[k].job
               /\ log'[k + 1].data = cache[log'[k].version]
          ELSE \E l \in loading' : l.job = log'[k].job /\ l.version = log'[k].version

\* a load that fails leaves the cache without an entry for its version
FailureLeavesNoEntry ==
    \A l \in loadsOver : loadFailed(l) => l.version \notin DOMAIN cache'

\* a load that fails leaves the cache as it was: it adds no entry, so the
\* cache is without an entry for its version unless another load of that
\* version has stored one
FailureAddsNoEntry ==
    \A l \in loadsOver : loadFailed(l) =>
        /\ cache' = cache
        /\ l.version \in DOMAIN cache' =>
              \E j \in JobNumbers : /\ j # l.job
                                    /\ versionOfJob(j) = l.version
                                    /\ hasBegun(j)
                                    /\ log[beginOf(j)].data = cache[l.version]

\* the claim C18 as it is written: a failed load leaves the cache without
\* an entry for its version, a successful load stores the table, a stored
\* entry is never removed, and a job whose version is cached performs no
\* fetch.
CacheLifecycleAsStated == [][CacheStepOfSuccess /\ FailureLeavesNoEntry]_vars

CacheStep == CacheStepOfSuccess /\ FailureAddsNoEntry

\* C18: the life of the cache: a failed load adds no entry, so the cache is
\* without an entry for its version unless another load of that version
\* stored one, and a request for a version without entry fetches; a
\* successful load stores the table, a stored entry is never removed, and
\* a job whose version is cached performs no fetch.
CacheLifecycle == [][CacheStep]_vars

\* the load of a version failed, a later request for it fetched again and
\* stored the table, and a job started after that for the same version ran
\* from the cache
CacheLifecycleWitness ==
    \E j1, j2, j3 \in JobNumbers :
        /\ versionOfJob(j1) = versionOfJob(j2)
        /\ versionOfJob(j2) = versionOfJob(j3)
        /\ \E k \in Events : /\ log[k].ev = "reject"
                             /\ log[k].job = j1
                             /\ k < startOf(j2)
        /\ hasBegun(j2)
        /\ beginOf(j2) < startOf(j3)
        /\ hasBegun(j3)
        /\ versionOfJob(j3) \in DOMAIN cache

-----------------------------------------------------------------------------
(* Suspension points *)

\* the total of the job numbered n when the step resumed it from its tick,
\* 0 when the step started it
totalBefore(n) ==
    LET resumed == {o \in ticking \ ticking' : o.job = n}
    IN  IF resumed = {} THEN 0 ELSE (CHOOSE o \in resumed : TRUE).total

\* One step of the worker, seen from the batches:
\*  - a job that suspends has made exactly YIELD_EVERY calls of gen.next()
\*    since it was started or resumed, in one batch, each of which gave a
\*    new Spelling, and its cap is not reached;
\*  - a job that runs a batch either suspends so, or leaves its loop in the
\*    same step;
\*  - a job that posts resultDone after a batch of fewer than YIELD_EVERY
\*    Spellings found the search exhausted at its last call or has reached
\*    its cap, and after a batch of YIELD_EVERY it has reached its cap.
BatchStep ==
    /\ \A j \in ticking' \ ticking :
          /\ j.total = totalBefore(j.job) + YIELD_EVERY
          /\ Cardinality({k \in newEvents : log'[k].ev = "next" /\ log'[k].job = j.job}) = 1
          /\ \A k \in newEvents : (log'[k].ev = "next" /\ log'[k].job = j.job) =>
                log'[k].n = YIELD_EVERY
          /\ j.maxEntries # <<>> => j.total < j.maxEntries[1]
    /\ \A k \in newEvents : log'[k].ev = "next" =>
          \/ \E j \in ticking' \ ticking : j.job = log'[k].job
          \/ /\ \A j \in ticking' : j.job # log'[k].job
             /\ \E m \in newEvents : m > k /\ log'[m].ev = "end" /\ log'[m].job = log'[k].job
    /\ \A k, e \in newEvents :
          ( /\ log'[k].ev = "next"
            /\ log'[e].ev = "post"
            /\ log'[e].type = "resultDone"
            /\ log'[e].job = log'[k].job ) =>
              LET total == posted'[Len(posted')].total
                  new == total - totalBefore(log'[k].job)
                  cap == log'[startOf(log'[k].job)].maxEntries
              IN  /\ new >= 0
                  /\ new <= YIELD_EVERY
                  /\ new < YIELD_EVERY =>
                        \/ log'[k].n = new + 1
                        \/ cap # <<>> /\ total = cap[1]
                  /\ new = YIELD_EVERY => (cap # <<>> /\ total = cap[1])

\* C19: a running job suspends only at batch boundaries, after exactly
\* YIELD_EVERY new Spellings; a shorter batch occurs only when the search is
\* exhausted or the cap is reached, and then the job terminates instead of
\* suspending.
SuspendsAtBatchBoundary == [][BatchStep]_vars

\* a job is suspended for the second time, two full batches computed
SuspendsAtBatchBoundaryWitness ==
    \E j \in ticking : j.total = 2 * YIELD_EVERY /\ hasBegun(j.job)

-----------------------------------------------------------------------------
(* Chunk messages *)

\* the display string of a sequence of strokes: each chord through
\* chordRepr, joined by " / "
displayOfStrokes(strokes) ==
    displayOf([k \in 1..Len(strokes) |-> << <<>>, strokes[k] >>])

\* C20: in every chunk message the display strings and the stroke arrays
\* are as many, and display string i is the display of stroke array i.
ChunkAligned ==
    \A m \in 1..Len(posted) : posted[m].type = "chunk" =>
        /\ Len(posted[m].spellings) = Len(posted[m].ways)
        /\ Len(posted[m].spellings) >= 1
        /\ \A i \in 1..Len(posted[m].spellings) :
              posted[m].spellings[i] = displayOfStrokes(posted[m].ways[i])

\* a chunk was posted for a Spelling of two chords or more, one of which has
\* a final stroke written with a leading "-"
ChunkAlignedWitness ==
    \E m \in 1..Len(posted) :
        /\ posted[m].type = "chunk"
        /\ Len(posted[m].ways[1]) >= 2
        /\ \E k \in 1..Len(posted[m].ways[1]) :
              startsWith(posted[m].ways[1][k][3], <<"-">>)
        /\ \E n \in 1..Len(posted) : n < m /\ posted[n].type = "chunk"

-----------------------------------------------------------------------------
(* The newest request, the flag and the pending slot *)

\* the event of the request received last
lastReceive ==
    CHOOSE k \in Events : log[k].ev = "receive" /\ \A m \in Events : m > k => log[m].ev # "receive"

\* job j was started for the request received last
isNewestJob(j) == receivedCount > 0 /\ startOf(j) > lastReceive

\* C21: while the job of the request received last is loading its table or
\* suspended at its tick, currentJobId is the id of that request, whatever
\* happened to the loads of older requests; and once that job has run and
\* left its loop, a terminal message was posted for it.
NewestUndisturbed ==
    /\ \A l \in loading : isNewestJob(l.job) => currentJobId = <<l.id>>
    /\ \A j \in ticking : isNewestJob(j.job) => currentJobId = <<j.id>>
    /\ \A j \in JobNumbers : (isNewestJob(j) /\ hasBegun(j) /\ hasEnded(j)) =>
          \E k \in Events : isTerminal(log[k]) /\ log[k].job = j

\* C22: jobRunning is true exactly when some job has started its batch loop
\* and not left it, that is, when a job is suspended at its tick.
JobRunningAccurate == jobRunning <=> (ticking # {})

\* C23: a job whose table was still loading when a request with another id
\* was received posts no message after that request.
SupersededLoadSilent ==
    \A k \in Events : \A j \in JobNumbers :
        ( /\ log[k].ev = "receive"
          /\ startOf(j) < k
          /\ ~before("begin", j, k)
          /\ ~before("reject", j, k)
          /\ idOfJob(j) # log[k].id ) =>
            \A m \in Events : m > k => ~(log[m].ev = "post" /\ log[m].job = j)

\* C24: whenever no job is loading its table and none is suspended at a
\* tick, pendingJob is empty.
NoRequestStranded == Quiescent => pendingJob = <<>>

-----------------------------------------------------------------------------
(* The memo of a search *)

sComponents == buildComponents(sData)

\* what followed the first chord c in the Spellings yielded so far, in order
restsAfter(c) ==
    LET ways == SelectSeq(sOut, LAMBDA w : w # <<>> /\ w[1] = c)
    IN  [k \in 1..Len(ways) |-> Tail(ways[k])]

\* C25: in one search getPrefixChords is called at most once with each
\* remaining suffix, and the Spellings of a suffix given again from the memo
\* are those given the first time, in the same order: when the search has
\* ended, two first chords of the same output are followed by the same
\* sequence of rests.
MemoReuse ==
    /\ \A i, j \in 1..Len(sCalls) : i # j => sCalls[i] # sCalls[j]
    /\ sState = "done" =>
          LET chordList == getPrefixChords(sTarget, sComponents)
          IN  \A a, b \in 1..Len(chordList) :
                  chordList[a][1] = chordList[b][1] =>
                      restsAfter(chordList[a]) = restsAfter(chordList[b])

\* a finished search in which two first chords of the same output left a
\* suffix of two letters or more, which has Spellings, was searched with one
\* call of getPrefixChords and was given from the memo the second time
MemoReuseWitness ==
    /\ sState = "done"
    /\ LET chordList == getPrefixChords(sTarget, sComponents)
       IN  \E a, b \in 1..Len(chordList) :
               /\ a # b
               /\ chordList[a][1] = chordList[b][1]
               /\ Len(sTarget) - Len(chordList[a][1]) >= 2
               /\ Len(restsAfter(chordList[b])) >= 2
               /\ slice(sTarget, Len(chordList[a][1])) \in DOMAIN sGen.memo
               /\ Cardinality({i \in 1..Len(sCalls) :
                                  sCalls[i] = slice(sTarget, Len(chordList[a][1]))}) = 1

\* c put in front of each way of the list
prepend(c, list) == [k \in 1..Len(list) |-> <<c>> \o list[k]]

\* The Spellings of t in the order of the search, written without a memo
\* and without suspension: for each chord of getPrefixChords(t) in order,
\* the chord followed by each Spelling of the rest, in order.
RECURSIVE orderedSpellings(_, _)
orderedSpellings(t, components) ==
    IF t = <<>> THEN << <<>> >>
    ELSE LET chordList == getPrefixChords(t, components)
             RECURSIVE from(_)
             from(k) ==
                 IF k > Len(chordList) THEN <<>>
                 ELSE prepend(chordList[k],
                              orderedSpellings(slice(t, Len(chordList[k][1])), components))
                      \o from(k + 1)
         IN  from(1)

\* C26: at every point where a search is suspended or has ended, each key of
\* the memo maps to the complete list of the Spellings of that key, in the
\* order of the search: none is missing, none is there twice.
MemoEntriesComplete ==
    \A key \in DOMAIN sGen.memo :
        /\ Range(sGen.memo[key]) = spellingsOf(key, sChords)
        /\ Len(sGen.memo[key]) = Cardinality(spellingsOf(key, sChords))
        /\ sGen.memo[key] = orderedSpellings(key, sComponents)

\* a search suspended in the middle: its outermost activation has gathered
\* some Spellings of the target and not all, so the target has no memo entry,
\* while a suffix of two Spellings or more has one
MemoEntriesCompleteWitness ==
    /\ sState = "suspended"
    /\ sGen.stack # <<>>
    /\ sGen.stack[1].pc = "loop"
    /\ Len(sGen.stack[1].ways) >= 1
    /\ Len(sGen.stack[1].ways) < Cardinality(spellingsOf(sTarget, sChords))
    /\ sTarget \notin DOMAIN sGen.memo
    /\ \E key \in DOMAIN sGen.memo : Len(sGen.memo[key]) >= 2

-----------------------------------------------------------------------------
(* The Prefix Matcher *)

\* the target of the search and each of its suffixes
sSuffixes == {slice(sTarget, n) : n \in 0..Len(sTarget)}

\* the place of the chord c in the enumeration (no chord is enumerated twice)
placeOf(c, all) == CHOOSE k \in 1..Len(all) : all[k] = c

\* C27: for the target of the search and each of its suffixes, the list of
\* getPrefixChords is in descending order of output length, and chords of
\* equal output length stand in the order of the enumeration; and the first
\* outputs of the Spellings yielded so far never grow in length.
PrefixChordsOrdered ==
    /\ \A t \in sSuffixes :
          LET all == allChordOutputs(sComponents)
              list == getPrefixChords(t, sComponents)
          IN  \A a, b \in 1..Len(list) : a < b =>
                  /\ Len(list[a][1]) >= Len(list[b][1])
                  /\ Len(list[a][1]) = Len(list[b][1]) =>
                        placeOf(list[a], all) < placeOf(list[b], all)
    /\ \A i, j \in 1..Len(sOut) : i < j =>
          Len(sOut[i][1][1]) >= Len(sOut[j][1][1])

\* a finished search whose target has prefix chords of two output lengths,
\* two of them of the same length, and that yielded Spellings beginning
\* with outputs of two lengths
PrefixChordsOrderedWitness ==
    /\ sState = "done"
    /\ LET list == getPrefixChords(sTarget, sComponents)
       IN  \E a, b, c \in 1..Len(list) :
               /\ a < b /\ b < c
               /\ Len(list[a][1]) > Len(list[b][1])
               /\ Len(list[b][1]) = Len(list[c][1])
    /\ \E i, j \in 1..Len(sOut) : Len(sOut[i][1][1]) > Len(sOut[j][1][1])

\* how many times x stands in the sequence seq
occurrences(x, seq) == Cardinality({k \in 1..Len(seq) : seq[k] = x})

\* C28: for the target of the search and each of its suffixes, the list of
\* getPrefixChords holds each enumerated chord whose output is not empty and
\* is a prefix of the target exactly once, and nothing else.
PrefixChordsExact ==
    \A t \in sSuffixes :
        LET all == allChordOutputs(sComponents)
            list == getPrefixChords(t, sComponents)
        IN  /\ \A k \in 1..Len(all) :
                  occurrences(all[k], list) =
                      IF all[k][1] # <<>> /\ startsWith(t, all[k][1]) THEN 1 ELSE 0
            /\ \A k \in 1..Len(list) :
                  /\ occurrences(list[k], all) = 1
                  /\ list[k][1] # <<>>
                  /\ startsWith(t, list[k][1])

\* a search whose tables enumerate a chord of empty output, a chord whose
\* output is not a prefix of the target although it is no longer than it,
\* and two chords or more that are returned
PrefixChordsExactWitness ==
    /\ Len(sOut) >= 1
    /\ LET all == allChordOutputs(sComponents)
           list == getPrefixChords(sTarget, sComponents)
       IN  /\ Len(list) >= 2
           /\ \E k \in 1..Len(all) : all[k][1] = <<>>
           /\ \E k \in 1..Len(all) : /\ all[k][1] # <<>>
                                     /\ Len(all[k][1]) <= Len(sTarget)
                                     /\ ~startsWith(sTarget, all[k][1])

-----------------------------------------------------------------------------
(* The first Spelling *)

\* C29: the first Spelling a search yields has the fewest chords among all
\* the Spellings of the target.
FirstIsFewest ==
    Len(sOut) >= 1 => \A w \in spellingsOf(sTarget, sChords) : Len(sOut[1]) <= Len(w)

-----------------------------------------------------------------------------
(* Termination.  The timer of line 169 fires and the fetch of line 123      *)
(* settles, one way or the other; requests may stop coming at any time.     *)

\* every timer that is set fires, every fetch that was started settles
\* (Tick is enabled exactly when ticking is not empty, one of FetchOk,
\* LoadOk and LoadFail exactly when loading is not empty)
Scheduling ==
    /\ ([]<>(ticking = {}) \/ []<><<Tick>>_vars)
    /\ ([]<>(loading = {}) \/ []<><<FetchOk \/ LoadOk \/ LoadFail>>_vars)

\* every job that has run and was never superseded has posted a terminal
\* message
NeverSupersededAnswered ==
    \A j \in JobNumbers : (hasBegun(j) /\ neverSuperseded(j)) =>
        \E k \in Events : isTerminal(log[k]) /\ log[k].job = j

\* under that scheduling every run of the worker reaches a point after which
\* no job is loading or suspended at a tick: every search ends
WorkerSettles == Scheduling => <>[]Quiescent

\* C30: once no job is loading or suspended at a tick any more, every job
\* that has run and was never superseded has posted its terminal message.
JobsTerminate == Quiescent => NeverSupersededAnswered

-----------------------------------------------------------------------------
(* The Chord Enumerator *)

\* the lists of a sequence of lists, one after the other
RECURSIVE flatten(_)
flatten(lists) ==
    IF lists = <<>> THEN <<>> ELSE Head(lists) \o flatten(Tail(lists))

\* what a fragment gives to the output: nothing when one of its characters
\* is a brace or a bar
fragmentOf(s) ==
    IF \E i \in 1..Len(s) : s[i] \in {"{", "}", "|"} THEN <<>> ELSE s

\* the chord of one candidate per list
chordOf(i, v, f, s) ==
    << fragmentOf(i[2]) \o fragmentOf(v[2]) \o fragmentOf(f[2]) \o fragmentOf(s[2]),
       << i[1], v[1], f[1], s[1] >> >>

\* the chords of every combination, initial outermost and suffix innermost
chordsNested(components) ==
    LET initials == components[1]
        vowels   == components[2]
        finals   == components[3]
        suffixes == components[4]
    IN  flatten([a \in 1..Len(initials) |->
          flatten([b \in 1..Len(vowels) |->
            flatten([c \in 1..Len(finals) |->
              [d \in 1..Len(suffixes) |->
                  chordOf(initials[a], vowels[b], finals[c], suffixes[d])]])])])

\* C31: allChordOutputs gives one chord for each combination of one
\* candidate per list, initial outermost and suffix innermost, the output of
\* each being its four fragments in role order with every fragment that is
\* not literal left out; chords of equal output are all there; and every
\* chord of a Spelling the search yielded is one of them.
ChordsEnumerated ==
    LET all == allChordOutputs(sComponents)
    IN  /\ Len(all) = Len(sComponents[1]) * Len(sComponents[2])
                      * Len(sComponents[3]) * Len(sComponents[4])
        /\ all = chordsNested(sComponents)
        /\ \A n \in 1..Len(sOut) : \A k \in 1..Len(sOut[n]) :
               sOut[n][k] \in Range(chordsNested(sComponents))

\* a search that has called the enumerator and yielded a Spelling, over
\* tables with two candidates in each list, a fragment that is not literal
\* and two chords of the same output
ChordsEnumeratedWitness ==
    /\ sCalls # <<>>
    /\ Len(sOut) >= 1
    /\ \A r \in 1..4 : Len(sComponents[r]) >= 2
    /\ \E r \in 1..4 : \E e \in 1..Len(sComponents[r]) :
           ~isLiteral(sComponents[r][e][2])
    /\ LET all == allChordOutputs(sComponents)
       IN  /\ Len(all) = 16
           /\ \E k, m \in 1..Len(all) :
                  k # m /\ all[k][1] = all[m][1] /\ all[k][1] # <<>>

-----------------------------------------------------------------------------
(* The Component Table Builder *)

\* the entries of the input mapping the list of role r is built from (for
\* the suffix role, `suffix` when it has a key, `suffixes` otherwise)
inputEntries(data, r) ==
    CASE r = 1 -> ObjectEntries(data.initials)
      [] r = 2 -> ObjectEntries(data.vowels)
      [] r = 3 -> ObjectEntries(data.finals)
      [] r = 4 -> IF ObjectEntries(data.suffix) # <<>>
                  THEN ObjectEntries(data.suffix)
                  ELSE ObjectEntries(data.suffixes)

\* each list holds the empty identifier exactly once, first when the input
\* did not have it, and its other entries are those of the input in order
EmptyCandidateOnce ==
    \A r \in 1..4 :
        LET list == sComponents[r]
            input == inputEntries(sData, r)
        IN  /\ Cardinality({k \in 1..Len(list) : list[k][1] = <<>>}) = 1
            /\ IF hasEmptyKey(input)
               THEN list = input
               ELSE list[1][1] = <<>> /\ Tail(list) = input

\* C32: each list of buildComponents holds the empty identifier exactly
\* once, first when the input did not have it, its other entries being
\* those of the input in order, and the entry of the empty identifier has
\* the empty fragment.
EmptyCandidateEmpty ==
    /\ EmptyCandidateOnce
    /\ \A r \in 1..4 : \A k \in 1..Len(sComponents[r]) :
           sComponents[r][k][1] = <<>> => sComponents[r][k][2] = <<>>

-----------------------------------------------------------------------------
(* The page (main.ts).  Its handlers run without interruption, so each is   *)
(* one step taking the page's state h (a record of its variables) to the    *)
(* state it leaves.  A message posted to the worker stands in toWorker      *)
(* until the worker's onmessage takes it; the worker's messages reach       *)
(* worker.onmessage in the order they were posted, hostSeen of them so far. *)

host ==
    [requestId |-> requestId, totalShownForRequest |-> totalShownForRequest,
     versionEl |-> versionEl, inputEl |-> inputEl, maxEntriesEl |-> maxEntriesEl,
     outputEl |-> outputEl, outputCountEl |-> outputCountEl,
     csvTableData |-> csvTableData, csvTbody |-> csvTbody,
     csvWordQueue |-> csvWordQueue, csvCurrentWord |-> csvCurrentWord,
     csvDisabled |-> csvDisabled, toWorker |-> toWorker, hostSeen |-> hostSeen,
     hostDropped |-> hostDropped, csvBatches |-> csvBatches, csvWords |-> csvWords,
     csvAsked |-> csvAsked]

hostBecomes(h) ==
    /\ requestId' = h.requestId
    /\ totalShownForRequest' = h.totalShownForRequest
    /\ versionEl' = h.versionEl
    /\ inputEl' = h.inputEl
    /\ maxEntriesEl' = h.maxEntriesEl
    /\ outputEl' = h.outputEl
    /\ outputCountEl' = h.outputCountEl
    /\ csvTableData' = h.csvTableData
    /\ csvTbody' = h.csvTbody
    /\ csvWordQueue' = h.csvWordQueue
    /\ csvCurrentWord' = h.csvCurrentWord
    /\ csvDisabled' = h.csvDisabled
    /\ toWorker' = h.toWorker
    /\ hostSeen' = h.hostSeen
    /\ hostDropped' = h.hostDropped
    /\ csvBatches' = h.csvBatches
    /\ csvWords' = h.csvWords
    /\ csvAsked' = h.csvAsked

isSpace(c) == c \in {" ", "\n", "\t"}

RECURSIVE trimStart(_)
trimStart(s) ==
    IF s # <<>> /\ isSpace(Head(s)) THEN trimStart(Tail(s)) ELSE s

RECURSIVE trimEnd(_)
trimEnd(s) ==
    IF s # <<>> /\ isSpace(s[Len(s)]) THEN trimEnd(SubSeq(s, 1, Len(s) - 1)) ELSE s

\* s.trim()
trim(s) == trimEnd(trimStart(s))

\* s.toLowerCase(), for texts written with the letters A to Z
UpperCase == <<"A","B","C","D","E","F","G","H","I","J","K","L","M",
               "N","O","P","Q","R","S","T","U","V","W","X","Y","Z">>
LowerCase == <<"a","b","c","d","e","f","g","h","i","j","k","l","m",
               "n","o","p","q","r","s","t","u","v","w","x","y","z">>

toLowerCase(s) ==
    [k \in 1..Len(s) |->
        IF \E i \in 1..Len(UpperCase) : UpperCase[i] = s[k]
        THEN LowerCase[CHOOSE i \in 1..Len(UpperCase) : UpperCase[i] = s[k]]
        ELSE s[k]]

\* text.split(/\s+/).filter(Boolean): word is the word being read
RECURSIVE splitWords(_, _)
splitWords(text, word) ==
    IF text = <<>> THEN IF word = <<>> THEN <<>> ELSE <<word>>
    ELSE IF isSpace(Head(text))
    THEN (IF word = <<>> THEN <<>> ELSE <<word>>) \o splitWords(Tail(text), <<>>)
    ELSE splitWords(Tail(text), Append(word, Head(text)))

digitOf(c) ==
    CASE c = "0" -> 0 [] c = "1" -> 1 [] c = "2" -> 2 [] c = "3" -> 3 [] c = "4" -> 4
      [] c = "5" -> 5 [] c = "6" -> 6 [] c = "7" -> 7 [] c = "8" -> 8 [] c = "9" -> 9
      [] OTHER -> -1

\* parseInt(s, 10): leading white space is skipped, then an optional sign,
\* then the number the leading digits write; <<>> (NaN) when no digit
\* stands there
RECURSIVE parseDigits(_, _)
parseDigits(s, n) ==
    IF s = <<>> \/ digitOf(Head(s)) < 0 THEN n
    ELSE parseDigits(Tail(s), 10 * n + digitOf(Head(s)))

parseInt(s) ==
    LET t == trimStart(s)
        signed == t # <<>> /\ Head(t) \in {"+", "-"}
        u == IF signed THEN Tail(t) ELSE t
    IN  IF u = <<>> \/ digitOf(Head(u)) < 0 THEN <<>>
        ELSE IF signed /\ Head(t) = "-" THEN <<0 - parseDigits(u, 0)>>
        ELSE <<parseDigits(u, 0)>>

\* String(n) of a whole number n >= 0
digitChar(d) ==
    CASE d = 0 -> "0" [] d = 1 -> "1" [] d = 2 -> "2" [] d = 3 -> "3" [] d = 4 -> "4"
      [] d = 5 -> "5" [] d = 6 -> "6" [] d = 7 -> "7" [] d = 8 -> "8" [] d = 9 -> "9"

RECURSIVE String(_)
String(n) ==
    IF n < 10 THEN <<digitChar(n)>> ELSE String(n \div 10) \o <<digitChar(n % 10)>>

\* applyUrlParams (lines 44-64) for the lookup view; a parameter the
\* address does not give is <<>>, one it gives is <<value>>
applyUrlParams(h, version, text, max) ==
    LET h1 == IF version # <<>> /\ version[1] \in Versions
              THEN [h EXCEPT !.versionEl = version[1]] ELSE h
        h2 == IF text # <<>> THEN [h1 EXCEPT !.inputEl = text[1]] ELSE h1
        n  == IF max = <<>> THEN <<>> ELSE parseInt(max[1])
    IN  IF max = <<>> THEN h2
        ELSE IF n # <<>> /\ n[1] >= 1 THEN [h2 EXCEPT !.maxEntriesEl = String(n[1])]
        ELSE IF max[1] = <<>> \/ toLowerCase(max[1]) = <<"n","o","n","e">>
             THEN [h2 EXCEPT !.maxEntriesEl = <<>>]
        ELSE h2

\* maxEntriesRaw === "" ? undefined
\*   : Math.max(1, parseInt(maxEntriesRaw, 10) || 0) || undefined
maxEntriesOf(raw) ==
    IF raw = <<>> THEN <<>>
    ELSE LET n == IF parseInt(raw) = <<>> THEN 0 ELSE parseInt(raw)[1]
         IN  IF n > 1 THEN <<n>> ELSE <<1>>

\* display.split(" / ") with "+" put before every chord but the first,
\* joined with " / " again
RECURSIVE chordOutputWithJoiner(_)
chordOutputWithJoiner(display) ==
    IF display = <<>> THEN <<>>
    ELSE IF startsWith(display, <<" ", "/", " ">>)
    THEN <<" ", "/", " ", "+">> \o chordOutputWithJoiner(slice(display, 3))
    ELSE <<Head(display)>> \o chordOutputWithJoiner(Tail(display))

\* worker.postMessage(msg)
workerPostMessage(h, msg) == [h EXCEPT !.toWorker = Append(@, msg)]

Dash == [kind |-> "dash", rows |-> <<>>]

Computing == [kind |-> "computing", rows |-> <<>>]

\* requestUpdate (lines 200-219)
requestUpdate(h) ==
    LET version == h.versionEl
        target == toLowerCase(trim(h.inputEl))
        id == h.requestId + 1
        h1 == [h EXCEPT !.requestId = id]
    IN  IF target = <<>>
        THEN [h1 EXCEPT !.outputCountEl = <<>>, !.outputEl = Dash]
        ELSE LET maxEntries == maxEntriesOf(trim(h1.maxEntriesEl))
                 h2 == [h1 EXCEPT !.totalShownForRequest = 0,
                                  !.outputCountEl = <<>>,
                                  !.outputEl = Computing]
             IN  workerPostMessage(h2, [id |-> id, version |-> version,
                                        target |-> target, maxEntries |-> maxEntries])

CSV_REQUEST_ID == -1

\* processNextCsvWord (lines 227-244)
processNextCsvWord(h) ==
    IF Len(h.csvWordQueue) = 0
    THEN [h EXCEPT !.csvDisabled = FALSE]
    ELSE LET word == Head(h.csvWordQueue)
             h1 == [h EXCEPT !.csvCurrentWord = word,
                             !.csvWordQueue = Tail(@),
                             !.csvAsked = Append(@, word)]
         IN  workerPostMessage(h1, [id |-> CSV_REQUEST_ID, version |-> h1.versionEl,
                                    target |-> toLowerCase(trim(word)),
                                    maxEntries |-> <<1>>])

\* csvTableData.push({word, chordOutput}) and appendCsvRow(csvTableData.length,
\* word, chordOutput)
pushCsvRow(h, word, chordOutput) ==
    LET h1 == [h EXCEPT !.csvTableData =
                   Append(@, [word |-> word, chordOutput |-> chordOutput])]
    IN  [h1 EXCEPT !.csvTbody = Append(@, <<Len(h1.csvTableData), word, chordOutput>>)]

\* the CSV branch of worker.onmessage taking the next word before the row
\* of the current one is written
csvMessageNextFirst(h, msg) ==
    IF msg.type = "chunk" /\ Len(msg.spellings) > 0
    THEN LET h1 == processNextCsvWord(h)
         IN  pushCsvRow(h1, h1.csvCurrentWord, chordOutputWithJoiner(msg.spellings[1]))
    ELSE IF msg.type = "resultDone" /\ msg.total = 0
    THEN LET h1 == processNextCsvWord(h)
         IN  pushCsvRow(h1, h1.csvCurrentWord, <<>>)
    ELSE IF msg.type = "error"
    THEN LET h1 == processNextCsvWord(h)
         IN  pushCsvRow(h1, h1.csvCurrentWord, <<>>)
    ELSE h

\* the CSV branch of worker.onmessage (lines 260-275)
csvMessage(h, msg) ==
    IF msg.type = "chunk" /\ Len(msg.spellings) > 0
    THEN processNextCsvWord(
             pushCsvRow(h, h.csvCurrentWord, chordOutputWithJoiner(msg.spellings[1])))
    ELSE IF msg.type = "resultDone" /\ msg.total = 0
    THEN processNextCsvWord(pushCsvRow(h, h.csvCurrentWord, <<>>))
    ELSE IF msg.type = "error"
    THEN processNextCsvWord(pushCsvRow(h, h.csvCurrentWord, <<>>))
    ELSE h

\* appendChunk (lines 187-198): each spelling goes to the end of the bucket
\* of its chord count, the buckets standing in ascending order of the count
RECURSIVE appendChunk(_, _, _, _)
appendChunk(rows, spellings, ways, i) ==
    IF i > Len(spellings) THEN rows
    ELSE LET chordCount == IF i <= Len(ways) THEN Len(ways[i]) ELSE 0
             upTo == SelectSeq(rows, LAMBDA r : r[1] <= chordCount)
             beyond == SelectSeq(rows, LAMBDA r : r[1] > chordCount)
         IN  appendChunk(upTo \o << <<chordCount, spellings[i]>> >> \o beyond,
                         spellings, ways, i + 1)

\* the lookup branch of worker.onmessage without the test of line 277
lookupMessageAnyId(h, msg) ==
    IF msg.type = "chunk"
    THEN [h EXCEPT !.outputEl = [kind |-> "rows",
                                  rows |-> appendChunk(IF @.kind = "rows" THEN @.rows
                                                       ELSE <<>>,
                                                       msg.spellings, msg.ways, 1)],
                   !.totalShownForRequest = @ + Len(msg.spellings),
                   !.outputCountEl = <<"so far", h.totalShownForRequest
                                                 + Len(msg.spellings)>>]
    ELSE IF msg.type = "resultDone"
    THEN [h EXCEPT !.outputCountEl = <<"total", msg.total>>,
                   !.outputEl = IF msg.total = 0
                                THEN [kind |-> "none", rows |-> <<>>] ELSE @]
    ELSE IF msg.type = "error"
    THEN [h EXCEPT !.outputCountEl = <<>>,
                   !.outputEl = [kind |-> "error", rows |-> <<>>]]
    ELSE h

\* the lookup branch of worker.onmessage (lines 277-298)
lookupMessage(h, msg) ==
    IF msg.id # h.requestId THEN [h EXCEPT !.hostDropped = @ + 1]
    ELSE IF msg.type = "chunk"
    THEN [h EXCEPT !.outputEl = [kind |-> "rows",
                                  rows |-> appendChunk(IF @.kind = "rows" THEN @.rows
                                                       ELSE <<>>,
                                                       msg.spellings, msg.ways, 1)],
                   !.totalShownForRequest = @ + Len(msg.spellings),
                   !.outputCountEl = <<"so far", h.totalShownForRequest
                                                 + Len(msg.spellings)>>]
    ELSE IF msg.type = "resultDone"
    THEN [h EXCEPT !.outputCountEl = <<"total", msg.total>>,
                   !.outputEl = IF msg.total = 0
                                THEN [kind |-> "none", rows |-> <<>>] ELSE @]
    ELSE IF msg.type = "error"
    THEN [h EXCEPT !.outputCountEl = <<>>,
                   !.outputEl = [kind |-> "error", rows |-> <<>>]]
    ELSE h

\* worker.onmessage (lines 258-299)
workerOnmessage(h, msg) ==
    LET h1 == [h EXCEPT !.hostSeen = @ + 1]
    IN  IF msg.id = CSV_REQUEST_ID THEN csvMessage(h1, msg) ELSE lookupMessage(h1, msg)

\* the click handler of csvComputeBtn (lines 560-574)
csvComputeClick(h, text) ==
    LET trimmed == trim(text)
        words == IF trimmed # <<>> THEN splitWords(trimmed, <<>>) ELSE <<>>
        h1 == [h EXCEPT !.csvTableData = <<>>, !.csvTbody = <<>>,
                        !.csvWords = words, !.csvAsked = <<>>]
    IN  IF Len(words) = 0 THEN h1
        ELSE processNextCsvWord([h1 EXCEPT !.csvWordQueue = words,
                                           !.csvDisabled = TRUE,
                                           !.csvBatches = @ + 1])

-----------------------------------------------------------------------------
(* The page and the worker together: what the user does (the page loads,    *)
(* a field of the lookup view changes, csvComputeBtn is clicked), the       *)
(* delivery of the messages in both directions, and the worker's fetches    *)
(* and timers.                                                              *)

\* how many requests of the lookup view a run goes up to
MaxUpdates == 2

\* how many batches of CSV words a run goes up to
MaxBatches == 1

\* what the user may type in the lookup field: blanks only, and a word of
\* eight Spellings in the tables of v1
HostTexts == { <<" ">>, <<"T","t","t">> }

\* what the user may type in the field of the cap
MaxEntriesTexts == { <<>>, <<"6">> }

\* what the user may type in the field of the CSV words: blanks only, and
\* a word without Spelling before a word whose first Spelling has two chords
CsvTexts ==
    { <<" ">>,
      <<" ","x"," "," ","T","t","\n">> }

\* what the address of the page may give as version, text and max: nothing,
\* or a value (for the version one with an option and one without, for max
\* a number after a blank, a sign and a zero, and the word for no cap)
UrlVersions == { <<>>, <<"v2">>, <<"v9">> }
UrlTexts == { <<>>, << <<"T","t","t">> >> }
UrlMaxes == { <<>>, << <<" ","+","0","6">> >>, << <<"N","O","n","e">> >> }

\* the script of the page runs (lines 594-597): applyUrlParams, then
\* requestUpdate
PageLoad ==
    /\ requestId = 0
    /\ \E version \in UrlVersions, text \in UrlTexts, max \in UrlMaxes :
          hostBecomes(requestUpdate(applyUrlParams(host, version, text, max)))
    /\ UNCHANGED <<workerVars, historyVars, searchVars>>

\* the change handler of versionEl (lines 349-354)
VersionChange ==
    /\ requestId > 0 /\ requestId < MaxUpdates
    /\ \E v \in Versions \ {versionEl} :
          hostBecomes(requestUpdate([host EXCEPT !.versionEl = v]))
    /\ UNCHANGED <<workerVars, historyVars, searchVars>>

\* the input handler of inputEl (lines 355-358)
TextInput ==
    /\ requestId > 0 /\ requestId < MaxUpdates
    /\ \E t \in HostTexts :
          hostBecomes(requestUpdate([host EXCEPT !.inputEl = t]))
    /\ UNCHANGED <<workerVars, historyVars, searchVars>>

\* the input handler of maxEntriesEl (lines 359-362)
MaxEntriesInput ==
    /\ requestId > 0 /\ requestId < MaxUpdates
    /\ \E m \in MaxEntriesTexts :
          hostBecomes(requestUpdate([host EXCEPT !.maxEntriesEl = m]))
    /\ UNCHANGED <<workerVars, historyVars, searchVars>>

\* a click on csvComputeBtn, which takes none while it is disabled
CsvCompute ==
    /\ requestId > 0
    /\ ~csvDisabled
    /\ csvBatches < MaxBatches
    /\ \E text \in CsvTexts : hostBecomes(csvComputeClick(host, text))
    /\ UNCHANGED <<workerVars, historyVars, searchVars>>

\* the worker takes the oldest message of the page
WorkerReceive ==
    /\ toWorker # <<>>
    /\ becomes(onmessage(worker, Head(toWorker)))
    /\ toWorker' = Tail(toWorker)
    /\ UNCHANGED <<requestId, totalShownForRequest, versionEl, inputEl, maxEntriesEl,
                   outputEl, outputCountEl, csvTableData, csvTbody, csvWordQueue,
                   csvCurrentWord, csvDisabled, hostSeen, hostDropped, csvBatches,
                   csvWords, csvAsked>>
    /\ UNCHANGED searchVars

\* the page takes the oldest message of the worker it has not taken yet
HostReceive ==
    /\ hostSeen < Len(posted)
    /\ hostBecomes(workerOnmessage(host, posted[hostSeen + 1]))
    /\ UNCHANGED <<workerVars, historyVars, searchVars>>

\* the lookup view of the page, and the worker
LookupNext ==
    \/ PageLoad \/ VersionChange \/ TextInput \/ MaxEntriesInput
    \/ WorkerReceive \/ HostReceive
    \/ FetchOk \/ LoadOk \/ LoadFail \/ Tick

LookupSpec == Init /\ [][LookupNext]_vars

\* the whole page, and the worker
HostNext == LookupNext \/ CsvCompute

HostSpec == Init /\ [][HostNext]_vars

-----------------------------------------------------------------------------
(* The CSV batch *)

isCsvRequest(r) == r.id = CSV_REQUEST_ID

\* the CSV requests the worker has not answered for: not taken yet, held
\* as pendingJob, or in a job that is loading or suspended at a tick
csvInFlight ==
    Cardinality({k \in 1..Len(toWorker) : isCsvRequest(toWorker[k])})
    + Cardinality({l \in loading : isCsvRequest(l)})
    + Cardinality({j \in ticking : isCsvRequest(j)})
    + (IF pendingJob # <<>> /\ isCsvRequest(pendingJob[1]) THEN 1 ELSE 0)

\* C33: the words a CSV request was posted for are the words of the click
\* in order, at most one of them is without its row, and only the last; at
\* most one CSV request is in flight, and none when every word asked for
\* has its row; row k is the row of word k and of no other.
CsvStrictSequence ==
    /\ csvAsked \o csvWordQueue = csvWords
    /\ Len(csvAsked) - Len(csvTableData) \in {0, 1}
    /\ csvInFlight <= Len(csvAsked) - Len(csvTableData)
    /\ Len(csvTbody) = Len(csvTableData)
    /\ \A k \in 1..Len(csvTableData) :
          /\ csvTableData[k].word = csvWords[k]
          /\ csvTbody[k] = <<k, csvWords[k], csvTableData[k].chordOutput>>

\* a batch of two words that is over: the first word, which has no
\* Spelling, has the row of the empty output, the second a row of two chords
CsvStrictSequenceWitness ==
    /\ Len(csvWords) = 2
    /\ Len(csvTableData) = 2
    /\ ~csvDisabled
    /\ csvTableData[1].chordOutput = <<>>
    /\ csvTableData[2].chordOutput = <<"T", " ", "/", " ", "+", "T">>
    /\ hostSeen = Len(posted)

-----------------------------------------------------------------------------
(* The lookup view *)

\* how many spellings the chunks carrying the id n brought, among the first
\* k messages of the worker
RECURSIVE spellingsReceived(_, _)
spellingsReceived(n, k) ==
    IF k = 0 THEN 0
    ELSE spellingsReceived(n, k - 1)
         + (IF posted[k].type = "chunk" /\ posted[k].id = n
            THEN Len(posted[k].spellings) ELSE 0)

\* the target of the latest request of the lookup view
latestTarget == toLowerCase(trim(inputEl))

\* worker.onmessage takes a message of the lookup view that does not carry
\* the latest id
takesOtherId ==
    /\ hostSeen' = hostSeen + 1
    /\ posted[hostSeen + 1].id # CSV_REQUEST_ID
    /\ posted[hostSeen + 1].id # requestId

lookupShown == <<outputEl, outputCountEl, totalShownForRequest>>

\* the claim C34 as it is written: a message of another id changes nothing
\* of the lookup view, and after every step totalShownForRequest is the
\* number of spellings received in chunks of the latest id
LatestOnlyAsStated ==
    [][ /\ takesOtherId => UNCHANGED lookupShown
        /\ requestId' > 0 =>
              totalShownForRequest' = spellingsReceived(requestId, hostSeen)' ]_vars

\* C34: a message of the lookup view carrying another id than the latest
\* changes nothing of the output, the count shown and the running count;
\* after every step, when the target of the latest request is not empty,
\* totalShownForRequest is the number of spellings received in chunks of
\* the latest id, and when it is empty the view shows the dash and no count.
LatestOnlyApplied ==
    [][ /\ takesOtherId => UNCHANGED lookupShown
        /\ (requestId' > 0 /\ latestTarget' # <<>>) =>
              totalShownForRequest' = spellingsReceived(requestId, hostSeen)'
        /\ (requestId' > 0 /\ latestTarget' = <<>>) =>
              (outputEl' = Dash /\ outputCountEl' = <<>>) ]_vars

\* the page has left a message of an older request at line 277 and shows
\* the spellings of the chunks of the second request, all of them taken
LatestOnlyAppliedWitness ==
    /\ requestId = 2
    /\ hostDropped >= 1
    /\ outputEl.kind = "rows"
    /\ totalShownForRequest >= 2
    /\ totalShownForRequest = Len(outputEl.rows)
    /\ hostSeen = Len(posted)
    /\ \E k \in 1..hostSeen : posted[k].type = "chunk" /\ posted[k].id = 1

====
